---- MODULE Spec2Model ----
(***************************************************************************)
(* A model of juju-doctor's `check` command: the resolution of probe URLs  *)
(* into a ProbeTree (Probe.from_url / RuleSet.aggregate_probes), the       *)
(* execution of the resolved probes (Probe.run), the built-in assertions   *)
(* (Applications / Relations / Offers) and the totals of the result tree.  *)
(***************************************************************************)
EXTENDS Integers, Sequences, FiniteSets, TLC

(***************************************************************************)
(* Bounds of the model.                                                    *)
(***************************************************************************)
\* Stack frames available below check(); stands for sys.setrecursionlimit(150)
\* (main.py:26) at the scale of the callee depths below.
MaxFrames == 6
\* Deepest stack a library call (yaml, fsspec, treelib, logging) needs: 1..MaxCallee.
MaxCallee == 2
\* Longest `probes` list of the ruleset document r.yaml.
MaxRefs == 2
\* Longest list of --probe arguments.
MaxUrls == 2

(***************************************************************************)
(* Program constants.                                                      *)
(***************************************************************************)
SUPPORTED_PROBE_FUNCTIONS == <<"status", "bundle", "show_unit">>
ROOT_NODE_ID == 0
ROOT_NODE_TAG == "Results"
\* FileExtensions.PYTHON / FileExtensions.RULESET as probes.py uses them.
PYTHON == {".py"}
RULESET == {".yaml", ".yml"}

(***************************************************************************)
(* Small helpers on sequences.                                             *)
(***************************************************************************)
Range(s) == {s[i] : i \in 1..Len(s)}

SeqsUpTo(S, n) == UNION {[1..k -> S] : k \in 0..n}

(***************************************************************************)
(* The file system the probe URLs point into.  A URL is modelled by the    *)
(* path it names; Path(url).suffix is the suffix of that path.             *)
(***************************************************************************)
ScriptletPaths == {"a.py", "b.py"}
RulesetPaths == {"r.yaml", "s.yaml"}
DirPaths == {"d"}
MissingPaths == {"x.py"}
Paths == ScriptletPaths \cup RulesetPaths \cup DirPaths \cup MissingPaths

\* Path(url).suffix.lower()
Suffix(path) ==
    CASE path \in ScriptletPaths \cup MissingPaths -> ".py"
      [] path \in RulesetPaths -> ".yaml"
      [] OTHER -> ""

\* The references a ruleset document may list under `probes`.
RefSet ==
    { [type |-> "scriptlet", url |-> "a.py"],
      [type |-> "scriptlet", url |-> "b.py"],
      [type |-> "scriptlet", url |-> "d"],
      [type |-> "ruleset", url |-> "s.yaml"],
      [type |-> "ruleset", url |-> "r.yaml"],
      [type |-> "scriptlet", url |-> "s.yaml"],
      [type |-> "builtin", url |-> "a.py"] }

\* What yaml.safe_load gives for a ruleset document: None (an empty or unreadable
\* file, `empty`), or a mapping with a name, a list of probe references and
\* built-in blocks.
NoContent == [empty |-> TRUE, name |-> "", probes |-> <<>>, builtins |-> {}]

Doc(name, refs, blocks) ==
    [empty |-> FALSE, name |-> name, probes |-> refs, builtins |-> blocks]

RContents == { Doc("R", refs, {"applications"}) : refs \in SeqsUpTo(RefSet, MaxRefs) }

SContents ==
    { NoContent,
      Doc("S", << [type |-> "scriptlet", url |-> "a.py"],
                  [type |-> "scriptlet", url |-> "b.py"] >>, {}),
      Doc("S", << [type |-> "scriptlet", url |-> "a.py"] >>, {"relations", "offers"}),
      Doc("S", << [type |-> "ruleset", url |-> "r.yaml"] >>, {}),
      Doc("S", << [type |-> "scriptlet", url |-> "b.py"] >>, {"foo"}),
      Doc("S", <<>>, {}) }

\* What the directory d holds (a ruleset and a scriptlet, as tests' small-dir).
DirFiles == <<"s.yaml", "b.py">>

\* copy_probes: the files a URL materializes, a file as itself, a directory
\* as the probe files in it, a path that does not exist as nothing.
copy_probes(url) ==
    CASE url \in ScriptletPaths \cup RulesetPaths -> <<url>>
      [] url \in DirPaths -> DirFiles
      [] OTHER -> <<>>

VARIABLES
    fs,            \* the documents behind r.yaml and s.yaml and the module a.py: [r, s, a]
    probe_urls,    \* the --probe arguments, in order
    params,        \* the --model names and the files of each kind, each with
                   \* the document in it: [models, status, bundle, show_unit]
    defaults,      \* the ProbeTree bound as default value of the probe_tree
                   \* parameter of Probe.from_url (probes.py:148)
    artifacts,     \* the gathered snapshots of each kind: [status, bundle, show_unit]
    pc,            \* where check() is
    unique_probe_urls,  \* the root URLs still to resolve
    resolved,      \* the root URLs Probe.from_url has been called for, in order
    probe_tree,    \* the ProbeTree (probes, tree, builtins), the uuid source, the log
    lists,         \* the heap of result lists: list id -> its AssertionResults
    next_probe,    \* index into probe_tree.probes of the next probe to run
    next_builtin,  \* index into the items of probe_tree.builtins
    check_functions,    \* the artifact kinds some probe or built-in asked for
    ran,           \* the uuids of the probes run so far, in order
    ceiling,       \* the root URLs during whose resolution the depth ceiling was hit
    totals,        \* the totals of the result document: [passed, failed]
    builtin,       \* a built-in block under validation: [type, impl, assertion]
    validated      \* what its validate() returned: [done, results, log, exc]

vars == <<fs, probe_urls, params, defaults, artifacts, pc, unique_probe_urls, resolved, probe_tree,
          lists, next_probe, next_builtin, check_functions, ran, ceiling, totals,
          builtin, validated>>

(***************************************************************************)
(* Probe (probes.py:81-144).                                               *)
(***************************************************************************)
\* uuid: UUID = field(default_factory=uuid4): a fresh identifier, here the
\* next value of a counter.
uuid4(counter) == counter + 1

\* A slip of the field: results: List[AssertionResult] = [] would be one
\* list for all Probes.
SharedResultList(uuid) == ROOT_NODE_ID
\* results: List[AssertionResult] = field(default_factory=list): every Probe
\* gets a list of its own, named here by the Probe's uuid.
NewResultList(uuid) == uuid

Probe(path, probes_chain, uuid) ==
    [path |-> path, probes_chain |-> probes_chain, uuid |-> uuid,
     results |-> NewResultList(uuid)]

\* The chain "uuid/uuid/uuid" is kept as the sequence its split("/") gives.
get_chain(probe) == Append(probe.probes_chain, probe.uuid)

root_node_uuid(probe) == Head(get_chain(probe))

is_root_node(probe) == probe.uuid = root_node_uuid(probe)

\* A get_parent that tests the chain the Probe was called with for more
\* than one element: the Probes called by a root have no parent.
get_parent_of_caller(probe) ==
    LET chain == probe.probes_chain
    IN  IF Len(chain) > 1 THEN chain[Len(chain)] ELSE ROOT_NODE_ID
\* None, for a chain of one, is written ROOT_NODE_ID: no Probe has that uuid.
get_parent(probe) ==
    LET chain == get_chain(probe)
    IN  IF Len(chain) > 1 THEN chain[Len(chain) - 1] ELSE ROOT_NODE_ID

(***************************************************************************)
(* treelib.Tree as probes.py uses it: empty until the root node is made.   *)
(***************************************************************************)
EmptyTree == [hasRoot |-> FALSE, nodes |-> <<>>]

\* ProbeTree() (probes.py:66-79) with, beside its three fields, the last uuid
\* handed out, the Probes constructed so far and the records logged so far.
ProbeTree ==
    [probes |-> <<>>, tree |-> EmptyTree, builtins |-> <<>>,
     uuids |-> ROOT_NODE_ID, made |-> <<>>, log |-> <<>>]

InTree(tree, id) ==
    \/ tree.hasRoot /\ id = ROOT_NODE_ID
    \/ \E i \in 1..Len(tree.nodes) : tree.nodes[i].id = id

(***************************************************************************)
(* The value an operation of the resolver returns: the ProbeTree it leaves *)
(* and the exception it raised ("none" when it returned).                  *)
(***************************************************************************)
Ok(pt) == [pt |-> pt, exc |-> "none"]
Raise(pt, e) == [pt |-> pt, exc |-> e]

Log(pt, level, what, arg) ==
    [pt EXCEPT !.log = Append(@, [level |-> level, what |-> what, arg |-> arg])]

\* tree.create_node(tag, identifier, parent, data) called from a frame at depth d.
create_node(pt, tag, id, parent, env, d) ==
    IF d + env.node > MaxFrames THEN Raise(pt, "RecursionError")
    ELSE IF InTree(pt.tree, id) THEN Raise(pt, "DuplicatedNodeIdError")
    ELSE IF ~InTree(pt.tree, parent) THEN Raise(pt, "NodeIDAbsentError")
    ELSE Ok([pt EXCEPT !.tree.nodes =
                Append(@, [id |-> id, tag |-> tag, parent |-> parent])])

\* "Create a root node if it does not exist" (probes.py:167-169, 352-354).
ensure_root(pt, env, d) ==
    IF pt.tree.hasRoot THEN Ok(pt)
    ELSE IF d + env.node > MaxFrames THEN Raise(pt, "RecursionError")
    ELSE Ok([pt EXCEPT !.tree.hasRoot = TRUE])

(***************************************************************************)
(* _read_file (probes.py:30-41), entered at depth d.  The call itself      *)
(* raises RecursionError when d is over the ceiling; a RecursionError      *)
(* raised under open()/yaml.safe_load() is an Exception and is caught by   *)
(* the last handler, whose log.warning() either fits under the ceiling     *)
(* (the error is swallowed, None is returned) or raises again.             *)
(***************************************************************************)
FileContent(path) ==
    CASE path = "r.yaml" -> fs.r
      [] path = "s.yaml" -> fs.s
      [] OTHER -> NoContent

\* A file that is no YAML mapping (a scriptlet read as a ruleset) fails to
\* parse: yaml.YAMLError, a warning, None.
ParsesAsYaml(path) == path \in RulesetPaths

_read_file(path, pt, env, d) ==
    IF d > MaxFrames THEN [val |-> NoContent, exc |-> "RecursionError", pt |-> pt]
    ELSE IF d + env.read > MaxFrames
         THEN IF d + env.log > MaxFrames
              THEN [val |-> NoContent, exc |-> "RecursionError", pt |-> pt]
              ELSE [val |-> NoContent, exc |-> "none",
                    pt |-> Log(pt, "warning", "read", path)]
    ELSE IF ~ParsesAsYaml(path)
         THEN [val |-> NoContent, exc |-> "none", pt |-> Log(pt, "warning", "yaml", path)]
    ELSE [val |-> FileContent(path), exc |-> "none", pt |-> pt]

(***************************************************************************)
(* RuleSet.builtins (probes.py:318-337), entered at depth d: the names of  *)
(* the SupportedBuiltins that are top-level keys of the document.          *)
(***************************************************************************)
SupportedBuiltins == <<"applications", "relations", "offers", "consumes", "probes">>

ContentKeys(content) ==
    IF content.empty THEN {}
    ELSE {"name"} \cup content.builtins
         \cup (IF content.probes # <<>> THEN {"probes"} ELSE {})

InKeys(content, name) == name \in ContentKeys(content)

builtins(probe, pt, env, d) ==
    IF d > MaxFrames THEN [val |-> <<>>, exc |-> "RecursionError", pt |-> pt]
    ELSE LET r == _read_file(probe.path, pt, env, d + 1)
         IN  IF r.exc # "none" THEN [val |-> <<>>, exc |-> r.exc, pt |-> r.pt]
             ELSE [val |-> SelectSeq(SupportedBuiltins,
                                     LAMBDA name : InKeys(r.val, name)),
                   exc |-> "none", pt |-> r.pt]

\* A table keyed by the built-in type alone: setdefault(name, ruleset_builtin)
\* keeps the block of the first ruleset that declares the type.
gather_builtins_by_name(table, names, probe) ==
    table \o SelectSeq([k \in 1..Len(names) |->
                           [name |-> names[k], chain |-> get_chain(probe),
                            owner |-> probe.path]],
                       LAMBDA e : ~\E i \in 1..Len(table) : table[i].name = e.name)
\* probes.py:184-188: setdefault keeps the first entry of a (name, chain).
RECURSIVE gather_builtins(_, _, _)
gather_builtins(table, names, probe) ==
    IF names = <<>> THEN table
    ELSE LET entry == [name |-> Head(names), chain |-> get_chain(probe),
                       owner |-> probe.path]
             has == \E i \in 1..Len(table) :
                        table[i].name = entry.name /\ table[i].chain = entry.chain
         IN  gather_builtins(IF has THEN table ELSE Append(table, entry),
                             Tail(names), probe)

(***************************************************************************)
(* Probe.from_url (probes.py:146-200) and RuleSet.aggregate_probes         *)
(* (probes.py:339-424), each entered at stack depth d.                     *)
(***************************************************************************)
RECURSIVE from_url(_, _, _, _, _), from_url_loop(_, _, _, _, _, _),
          aggregate_probes(_, _, _, _), aggregate_loop(_, _, _, _, _, _)

\* probes.py:405-414, after a ruleset-typed reference was resolved.  With one
\* probe in the list the loop reads that probe as a ruleset and extends the
\* list it iterates over by itself: every pass doubles the list, the loop
\* never reaches its end and the run dies of MemoryError.
nested_rulesets(pt, env, d) ==
    IF Len(pt.probes) > 1 \/ Len(pt.probes) = 0 THEN Ok(pt)
    ELSE LET r == aggregate_probes(pt.probes[1], pt, env, d + 1)
         IN  IF r.exc # "none" THEN r
             ELSE Raise([r.pt EXCEPT !.probes = @ \o @], "MemoryError")

\* The suffix of a reference's URL does not match its declared type.
Mismatch(ref, extensions) ==
    Suffix(ref.url) # "" /\ Suffix(ref.url) \notin extensions

\* The `for ruleset_probe in ruleset_probes` loop from reference i on.
aggregate_loop(probe, refs, i, pt, env, d) ==
    IF i > Len(refs) THEN Ok(pt)
    ELSE LET ref == refs[i]
         IN  CASE ref.type = "scriptlet" ->
                    IF Mismatch(ref, PYTHON)
                    THEN Ok(Log(pt, "warning", "not a scriptlet", ref.url))
                    ELSE LET r == from_url(ref.url, get_chain(probe), pt, env, d + 1)
                         IN  IF r.exc # "none" THEN r
                             ELSE aggregate_loop(probe, refs, i + 1, r.pt, env, d)
               [] ref.type = "ruleset" ->
                    IF Mismatch(ref, RULESET)
                    THEN Ok(Log(pt, "warning", "not a ruleset", ref.url))
                    ELSE LET r == from_url(ref.url, get_chain(probe), pt, env, d + 1)
                         IN  IF r.exc # "none" THEN r
                             ELSE LET n == nested_rulesets(r.pt, env, d)
                                  IN  IF n.exc # "none" THEN n
                                      ELSE aggregate_loop(probe, refs, i + 1, n.pt, env, d)
               [] OTHER -> Raise(pt, "NotImplementedError")

aggregate_probes(probe, pt, env, d) ==
    IF d > MaxFrames THEN Raise(pt, "RecursionError")
    ELSE LET c == _read_file(probe.path, pt, env, d + 1)
         IN  IF c.exc # "none" THEN Raise(c.pt, c.exc)
             ELSE IF c.val.empty THEN Ok(c.pt)
             ELSE LET t == ensure_root(c.pt, env, d)
                      n == create_node(t.pt, c.val.name, probe.uuid,
                                       IF is_root_node(probe) THEN ROOT_NODE_ID
                                       ELSE get_parent(probe), env, d)
                  IN  IF t.exc # "none" THEN t
                      ELSE IF n.exc # "none" THEN n
                      ELSE aggregate_loop(probe, c.val.probes, 1, n.pt, env, d)

\* The `for probe_path in probe_paths` loop from path i on.
from_url_loop(paths, i, probes_chain, pt, env, d) ==
    IF i > Len(paths) THEN Ok(pt)
    ELSE LET uuid == uuid4(pt.uuids)
             probe == Probe(paths[i], probes_chain, uuid)
             pt1 == [pt EXCEPT !.uuids = uuid, !.made = Append(@, probe)]
         IN  IF Suffix(probe.path) \in RULESET
             THEN LET b == builtins(probe, pt1, env, d + 1)
                      pt2 == [b.pt EXCEPT !.builtins = gather_builtins(@, b.val, probe)]
                      a == aggregate_probes(probe, pt2, env, d + 1)
                  IN  IF b.exc # "none" THEN Raise(b.pt, b.exc)
                      ELSE IF a.exc # "none" THEN a
                      ELSE from_url_loop(paths, i + 1, probes_chain, a.pt, env, d)
             ELSE LET n == IF is_root_node(probe)
                           THEN create_node(pt1, probe.path, probe.uuid,
                                            ROOT_NODE_ID, env, d)
                           ELSE Ok(pt1)
                  IN  IF n.exc # "none" THEN n
                      ELSE from_url_loop(paths, i + 1, probes_chain,
                                         [n.pt EXCEPT !.probes = Append(@, probe)],
                                         env, d)

from_url(url, probes_chain, pt, env, d) ==
    IF d > MaxFrames THEN Raise(pt, "RecursionError")
    ELSE LET t == ensure_root(pt, env, d)
         IN  IF t.exc # "none" THEN t
             ELSE IF d + env.copy > MaxFrames THEN Raise(t.pt, "RecursionError")
             ELSE from_url_loop(copy_probes(url), 1, probes_chain, t.pt, env, d)

(***************************************************************************)
(* AssertionResult (results.py:35-46).  A built-in's result has no         *)
(* function name; `exception` is what the captured error says.             *)
(***************************************************************************)
NoFuncName == "None"
NoException == [kind |-> "none"]

AssertionResult(func_name, passed, exception) ==
    [func_name |-> func_name, passed |-> passed, exception |-> exception]

status(result) == IF result.passed THEN "pass" ELSE "fail"

\* The running totals of ProbeResultAggregator._build_tree (tree.py:72-81):
\* results[assertion_result.status] += 1 for every AssertionResult.
CountStatus(results, st) ==
    Cardinality({i \in 1..Len(results) : status(results[i]) = st})

(***************************************************************************)
(* The artifacts: per kind an ordered mapping of snapshot name -> document,*)
(* kept as the sequence of its items.  A status document lists its         *)
(* applications (name, scale) and offers; a bundle its relations.          *)
(***************************************************************************)
\* Longest list of expectations of a built-in block.
MaxExpect == 2
\* Most snapshots of one kind.
MaxSnapshots == 2

App(name, scale) == [name |-> name, scale |-> scale]

\* The `applications` of the status documents considered.
StatusApps ==
    { <<>>,
      << App("am", 1) >>,
      << App("loki", 0) >>,
      << App("am", 1), App("loki", 3) >>,
      << App("loki", 1), App("am", 2) >> }

\* An expectation of the applications block: minimum and maximum are optional,
\* <<>> when the key is absent.
AppAssertion(name, minimum, maximum) ==
    [name |-> name, minimum |-> minimum, maximum |-> maximum]

AppAssertions ==
    { AppAssertion("am", <<>>, <<>>),
      AppAssertion("am", <<2>>, <<>>),
      AppAssertion("am", <<>>, <<0>>),
      AppAssertion("am", <<2>>, <<0>>),
      AppAssertion("am", <<1>>, <<2>>),
      AppAssertion("loki", <<1>>, <<>>),
      AppAssertion("ghost", <<>>, <<>>) }

Names(assertion) == [i \in 1..Len(assertion) |-> assertion[i].name]

AppNamesIn(apps) == {apps[i].name : i \in 1..Len(apps)}

Warned(what) == << [level |-> "warning", what |-> what, arg |-> "builtin"] >>

(***************************************************************************)
(* Applications.validate (builtins.py:95-135).                             *)
(***************************************************************************)
\* builtins.py:117-130: the bounds of one expectation against one application.
ScaleFailures(app, app_assertion) ==
    (IF app_assertion.minimum # <<>> /\ app.scale < app_assertion.minimum[1]
     THEN << AssertionResult(NoFuncName, FALSE,
                [kind |-> "below", app |-> app.name, scale |-> app.scale,
                 limit |-> app_assertion.minimum[1]]) >>
     ELSE <<>>)
    \o
    (IF app_assertion.maximum # <<>> /\ app.scale > app_assertion.maximum[1]
     THEN << AssertionResult(NoFuncName, FALSE,
                [kind |-> "exceeds", app |-> app.name, scale |-> app.scale,
                 limit |-> app_assertion.maximum[1]]) >>
     ELSE <<>>)

\* The inner `for app_assertion in self.assertion` loop for one application.
RECURSIVE AppFailures(_, _)
AppFailures(app, assertion) ==
    IF assertion = <<>> THEN <<>>
    ELSE (IF Head(assertion).name = app.name
          THEN ScaleFailures(app, Head(assertion)) ELSE <<>>)
         \o AppFailures(app, Tail(assertion))

\* The `for name, app in relevant_apps.items()` loop.
RECURSIVE RelevantAppsFailures(_, _)
RelevantAppsFailures(apps, assertion) ==
    IF apps = <<>> THEN <<>>
    ELSE (IF Head(apps).name \in Range(Names(assertion))
          THEN AppFailures(Head(apps), assertion) ELSE <<>>)
         \o RelevantAppsFailures(Tail(apps), assertion)

\* A slip of the presence test: one failure per declared name that is absent.
NotEachApp(snapshot, assertion) ==
    LET absent == SelectSeq(assertion,
                     LAMBDA a : a.name \notin AppNamesIn(snapshot.doc.applications))
    IN  [i \in 1..Len(absent) |->
            AssertionResult(NoFuncName, FALSE,
               [kind |-> "not all apps", names |-> <<absent[i].name>>,
                snapshot |-> snapshot.name])]
\* builtins.py:108-112: one failure for the status when not all names are in it.
NotAllApps(snapshot, assertion) ==
    IF \A i \in 1..Len(assertion) : assertion[i].name \in AppNamesIn(snapshot.doc.applications)
    THEN <<>>
    ELSE << AssertionResult(NoFuncName, FALSE,
               [kind |-> "not all apps", names |-> Names(assertion),
                snapshot |-> snapshot.name]) >>

\* The `for status_name, status in artifact_obj.items()` loop.
RECURSIVE StatusesFailures(_, _)
StatusesFailures(snapshots, assertion) ==
    IF snapshots = <<>> THEN <<>>
    ELSE NotAllApps(Head(snapshots), assertion)
         \o RelevantAppsFailures(Head(snapshots).doc.applications, assertion)
         \o StatusesFailures(Tail(snapshots), assertion)

\* A slip of the closing test: the pass is appended whatever was found.
PassAlways(results) ==
    Append(results, AssertionResult(NoFuncName, TRUE, NoException))
\* builtins.py:132-133, 182-183, 248-249: one pass when nothing failed.
PassIfNone(results) ==
    IF results = <<>> THEN << AssertionResult(NoFuncName, TRUE, NoException) >>
    ELSE results

ValidateReturn(results, log) == [results |-> results, log |-> log, exc |-> "none"]

ValidateRaises(e) == [results |-> <<>>, log |-> <<>>, exc |-> e]

Applications_validate(assertion, arts) ==
    IF assertion = <<>> \/ arts.status = <<>>
    THEN ValidateReturn(<<>>, Warned("No status artifact"))
    ELSE ValidateReturn(PassIfNone(StatusesFailures(arts.status, assertion)), <<>>)

(***************************************************************************)
(* ApplicationBuiltin.validate (builtins/applications.py:32-86): the same  *)
(* loops, with the empty expectation list returning without a warning.     *)
(***************************************************************************)
ApplicationBuiltin_validate(assertions, arts) ==
    IF assertions = <<>> THEN ValidateReturn(<<>>, <<>>)
    ELSE IF arts.status = <<>>
         THEN ValidateReturn(<<>>, Warned("No status artifact"))
    ELSE ValidateReturn(PassIfNone(StatusesFailures(arts.status, assertions)), <<>>)

(***************************************************************************)
(* Relations.  An endpoint string "app:endpoint" is kept as the sequence   *)
(* its split(":") gives, <<app, endpoint>>; a relation is a list of two.   *)
(***************************************************************************)
Ep(app, endpoint) == <<app, endpoint>>

RelPairs ==
    { << Ep("a", "x"), Ep("b", "x") >>,
      << Ep("b", "x"), Ep("a", "x") >>,
      << Ep("a", "x"), Ep("b", "xy") >>,
      << Ep("b", "xy"), Ep("a", "x") >>,
      << Ep("a", "xy"), Ep("b", "x") >>,
      << Ep("a", "x"), Ep("a", "x") >> }

\* The `relations` of the bundle documents considered.
BundleRelations ==
    { <<>>,
      << << Ep("a", "x"), Ep("b", "x") >> >>,
      << << Ep("b", "xy"), Ep("a", "x") >> >>,
      << << Ep("a", "xy"), Ep("b", "x") >>, << Ep("a", "x"), Ep("a", "x") >> >>,
      << << Ep("b", "x"), Ep("a", "x") >>, << Ep("a", "x"), Ep("b", "xy") >> >> }

\* a in b for the endpoint names above (Python's substring test on strings).
IsSubstring(a, b) == a = b \/ (a = "x" /\ b = "xy")

Reverse(pair) == << pair[2], pair[1] >>

\* [relation for bundle in artifact_obj.values() for relation in bundle["relations"]]
RECURSIVE AllRelations(_)
AllRelations(bundles) ==
    IF bundles = <<>> THEN <<>>
    ELSE Head(bundles).doc.relations \o AllRelations(Tail(bundles))

\* builtins.py:175-178, builtins/relations.py:70: the pair or its reverse is
\* an element of the list.
PairFound(rel_pair, bundle_relations) ==
    rel_pair \in Range(bundle_relations) \/ Reverse(rel_pair) \in Range(bundle_relations)

RelationNotFound(rel_pair, bundle_relations) ==
    AssertionResult(NoFuncName, FALSE,
        [kind |-> "relation not found", pair |-> rel_pair, rels |-> bundle_relations])

\* builtins.py:168-180, a relation being {provides, requires}.
RECURSIVE RelationsFailures(_, _)
RelationsFailures(assertion, bundle_relations) ==
    IF assertion = <<>> THEN <<>>
    ELSE LET relation == Head(assertion)
             rel_pair == << relation.requires, relation.provides >>
         IN  (IF PairFound(rel_pair, bundle_relations) THEN <<>>
              ELSE << RelationNotFound(rel_pair, bundle_relations) >>)
             \o RelationsFailures(Tail(assertion), bundle_relations)

\* Relations.validate (builtins.py:157-185).
Relations_validate(assertion, arts) ==
    IF assertion = <<>> \/ arts.bundle = <<>>
    THEN ValidateReturn(<<>>, Warned("No bundle artifact"))
    ELSE ValidateReturn(
            PassIfNone(RelationsFailures(assertion, AllRelations(arts.bundle))), <<>>)

\* builtins/relations.py:65-72, a relation being {apps: [..]}.
RECURSIVE RelationBuiltinFailures(_, _)
RelationBuiltinFailures(rels_, rels) ==
    IF rels_ = <<>> THEN <<>>
    ELSE (IF PairFound(Head(rels_).apps, rels) THEN <<>>
          ELSE << RelationNotFound(Head(rels_).apps, rels) >>)
         \o RelationBuiltinFailures(Tail(rels_), rels)

\* RelationBuiltin.validate (builtins/relations.py:41-77); a relation of other
\* than two apps raises NotImplementedError.
RelationBuiltin_validate(rels_, arts) ==
    IF rels_ = <<>> THEN ValidateReturn(<<>>, <<>>)
    ELSE IF arts.bundle = <<>>
         THEN ValidateReturn(<<>>, Warned("No bundle artifact"))
    ELSE IF \E i \in 1..Len(rels_) : Len(rels_[i].apps) # 2
         THEN ValidateRaises("NotImplementedError")
    ELSE ValidateReturn(
            PassIfNone(RelationBuiltinFailures(rels_, AllRelations(arts.bundle))), <<>>)

\* Relation.from_rel_pair (builtin/relation-exists.py:122-132):
\* rel_pair[k].split(":")[0] and [1].
from_rel_pair(rel_pair) ==
    [name_0 |-> rel_pair[1][1], endpoint_0 |-> rel_pair[1][2],
     name_1 |-> rel_pair[2][1], endpoint_1 |-> rel_pair[2][2],
     names |-> << rel_pair[1][1], rel_pair[2][1] >>,
     endpoints |-> << rel_pair[1][2], rel_pair[2][2] >>]

\* A slip of equals: the flipped comparison without the endpoints.
equalsNoEndpoints(self, other) ==
    \/ self = other
    \/ /\ self.name_0 = other.name_1
       /\ IsSubstring(self.endpoint_0, other.endpoint_1)
       /\ self.names = Reverse(other.names)

\* Relation.equals (builtin/relation-exists.py:134-145).
equals(self, other) ==
    LET flipped_equality ==
            /\ self.name_0 = other.name_1
            /\ IsSubstring(self.endpoint_0, other.endpoint_1)
            /\ self.names = Reverse(other.names)
            /\ self.endpoints = Reverse(other.endpoints)
    IN  self = other \/ flipped_equality

(***************************************************************************)
(* Offers.validate (builtins.py:211-251).  A status document's offers are  *)
(* name -> endpoints, an endpoint being name -> interface.                 *)
(***************************************************************************)
Endpoint(name, interface) == [name |-> name, interface |-> interface]
Offer(name, endpoints) == [name |-> name, endpoints |-> endpoints]

StatusOffers ==
    { <<>>,
      << Offer("lo", << Endpoint("logging", "push") >>) >>,
      << Offer("lo", << Endpoint("other", "push") >>) >>,
      << Offer("gr", << Endpoint("dash", "gd") >>),
         Offer("lo", << Endpoint("logging", "push") >>) >> }

OfferAssertion(name, endpoint, interface) ==
    [name |-> name, endpoint |-> endpoint, interface |-> interface]

\* endpoint: Optional[str] = Field(None), interface: Optional[str] = Field(None)
\* (builtins/offers.py:20-21): an undeclared field is None.
None == "None"

OfferAssertions ==
    { OfferAssertion("lo", "logging", "push"),
      OfferAssertion("lo", "logging-fake", "push"),
      OfferAssertion("lo", "logging", "push-fake"),
      OfferAssertion("gr", "dash", "gd"),
      OfferAssertion("ghost", "logging", "push") }

\* builtins.py:233-246 for one expectation and the offer of its name.
EndpointFailures(offer, offer_assertion) ==
    LET at == {i \in 1..Len(offer.endpoints) :
                  offer.endpoints[i].name = offer_assertion.endpoint}
    IN  IF at = {}
        THEN << AssertionResult(NoFuncName, FALSE,
                   [kind |-> "endpoint", offer |-> offer.name,
                    endpoint |-> offer_assertion.endpoint]) >>
        ELSE LET interface == offer.endpoints[CHOOSE i \in at : TRUE].interface
             IN  IF offer_assertion.interface # interface
                 THEN << AssertionResult(NoFuncName, FALSE,
                            [kind |-> "interface", offer |-> offer.name,
                             interface |-> offer_assertion.interface,
                             found |-> interface]) >>
                 ELSE <<>>

RECURSIVE OfferFailures(_, _)
OfferFailures(offer, assertion) ==
    IF assertion = <<>> THEN <<>>
    ELSE (IF Head(assertion).name = offer.name
          THEN EndpointFailures(offer, Head(assertion)) ELSE <<>>)
         \o OfferFailures(offer, Tail(assertion))

RECURSIVE RelevantOffersFailures(_, _)
RelevantOffersFailures(offers, assertion) ==
    IF offers = <<>> THEN <<>>
    ELSE (IF Head(offers).name \in Range(Names(assertion))
          THEN OfferFailures(Head(offers), assertion) ELSE <<>>)
         \o RelevantOffersFailures(Tail(offers), assertion)

NotAllOffers(snapshot, assertion) ==
    IF \A i \in 1..Len(assertion) :
           assertion[i].name \in AppNamesIn(snapshot.doc.offers)
    THEN <<>>
    ELSE << AssertionResult(NoFuncName, FALSE,
               [kind |-> "not all offers", names |-> Names(assertion),
                snapshot |-> snapshot.name]) >>

RECURSIVE StatusesOfferFailures(_, _)
StatusesOfferFailures(snapshots, assertion) ==
    IF snapshots = <<>> THEN <<>>
    ELSE NotAllOffers(Head(snapshots), assertion)
         \o RelevantOffersFailures(Head(snapshots).doc.offers, assertion)
         \o StatusesOfferFailures(Tail(snapshots), assertion)

Offers_validate(assertion, arts) ==
    IF assertion = <<>> \/ arts.status = <<>>
    THEN ValidateReturn(<<>>, Warned("No status artifact"))
    ELSE ValidateReturn(PassIfNone(StatusesOfferFailures(arts.status, assertion)), <<>>)

\* The expectations OfferAssertion (builtins/offers.py:15-21) admits beside
\* those: a name alone, and a name with an endpoint.
OptionalOfferAssertions ==
    { OfferAssertion("lo", None, None),
      OfferAssertion("lo", "logging", None),
      OfferAssertion("gr", "dash-fake", None) }

\* OfferBuiltin.validate (builtins/offers.py:27-81): the loops of
\* Offers.validate, `_offer.endpoint not in offer["endpoints"]` and
\* `_offer.interface != interface` being evaluated on None as on a string.
OfferBuiltin_validate(offers_, arts) ==
    IF offers_ = <<>> THEN ValidateReturn(<<>>, <<>>)
    ELSE IF arts.status = <<>>
         THEN ValidateReturn(<<>>, Warned("No status artifact"))
    ELSE ValidateReturn(PassIfNone(StatusesOfferFailures(arts.status, offers_)), <<>>)

\* Consumes.validate (builtins.py:265-268) and Probes.validate (builtins.py:295-300).
Consumes_validate(assertion, arts) == ValidateRaises("NotImplementedError")

Probes_validate(assertion, arts) == ValidateReturn(<<>>, <<>>)

\* validate() of the built-in block b: the classes of builtins.py, and under
\* impl "plugin" the classes of the builtins/ package.
Validate(b, arts) ==
    CASE b.type = "applications" /\ b.impl = "builtins.py" ->
            Applications_validate(b.assertion, arts)
      [] b.type = "applications" /\ b.impl = "plugin" ->
            ApplicationBuiltin_validate(b.assertion, arts)
      [] b.type = "relations" /\ b.impl = "builtins.py" ->
            Relations_validate(b.assertion, arts)
      [] b.type = "relations" /\ b.impl = "plugin" ->
            RelationBuiltin_validate(b.assertion, arts)
      [] b.type = "offers" /\ b.impl = "builtins.py" ->
            Offers_validate(b.assertion, arts)
      [] b.type = "offers" /\ b.impl = "plugin" ->
            OfferBuiltin_validate(b.assertion, arts)
      [] b.type = "consumes" -> Consumes_validate(b.assertion, arts)
      [] OTHER -> Probes_validate(b.assertion, arts)

(***************************************************************************)
(* The built-in blocks and artifacts a validation is checked on.           *)
(***************************************************************************)
\* The items of a kind's mapping: snapshot name (its position) -> document.
Snapshots(docs) == [i \in 1..Len(docs) |-> [name |-> i, doc |-> docs[i]]]

BundleDocs == { [relations |-> rels] : rels \in BundleRelations }

Artifacts(status_docs, bundle_docs, show_unit_docs) ==
    [status |-> Snapshots(status_docs), bundle |-> Snapshots(bundle_docs),
     show_unit |-> Snapshots(show_unit_docs)]

\* A declared relation pair, as builtins.py reads it and as builtins/ does.
Declared(pair, impl) ==
    IF impl = "builtins.py" THEN [requires |-> pair[1], provides |-> pair[2]]
    ELSE [apps |-> pair]

DeclaredPair(relation, impl) ==
    IF impl = "builtins.py" THEN << relation.requires, relation.provides >>
    ELSE relation.apps

Block(type, impl, assertion) == [type |-> type, impl |-> impl, assertion |-> assertion]

Impls == {"builtins.py", "plugin"}

\* The documents a block of each type is validated on.
AppDocs == { [applications |-> apps, offers |-> <<>>] : apps \in StatusApps }

OfferDocs == { [applications |-> <<>>, offers |-> offers] : offers \in StatusOffers }

PlainDocs == { [applications |-> <<>>, offers |-> <<>>] }

ProbeRefs == { [type |-> "scriptlet", url |-> "a.py"] }

\* The block b and the artifacts arts are a case of the type: its classes,
\* up to MaxExpect expectations and up to MaxSnapshots snapshots of its kind.
ApplicationsCase(b, arts) ==
    \E impl \in Impls, assertion \in SeqsUpTo(AppAssertions, MaxExpect),
       docs \in SeqsUpTo(AppDocs, MaxSnapshots) :
        /\ b = Block("applications", impl, assertion)
        /\ arts = Artifacts(docs, <<>>, <<>>)

RelationsCase(b, arts) ==
    \E impl \in Impls, pairs \in SeqsUpTo(RelPairs, MaxExpect),
       docs \in SeqsUpTo(BundleDocs, MaxSnapshots) :
        /\ b = Block("relations", impl,
                     [i \in 1..Len(pairs) |-> Declared(pairs[i], impl)])
        /\ arts = Artifacts(<<>>, docs, <<>>)

\* The schema of builtins.py requires name, endpoint and interface; the
\* model of builtins/offers.py leaves endpoint and interface optional.
OfferAssertionsOf(impl) ==
    IF impl = "builtins.py" THEN OfferAssertions
    ELSE OfferAssertions \cup OptionalOfferAssertions

OffersCase(b, arts) ==
    \E impl \in Impls, docs \in SeqsUpTo(OfferDocs, MaxSnapshots) :
       \E assertion \in SeqsUpTo(OfferAssertionsOf(impl), MaxExpect) :
        /\ b = Block("offers", impl, assertion)
        /\ arts = Artifacts(docs, <<>>, <<>>)

OtherCase(b, arts) ==
    \E type \in {"consumes", "probes"}, assertion \in SeqsUpTo(ProbeRefs, MaxExpect),
       docs \in SeqsUpTo(PlainDocs, MaxSnapshots) :
        /\ b = Block(type, "builtins.py", assertion)
        /\ arts = Artifacts(docs, <<>>, <<>>)

NotValidated == [done |-> FALSE, results |-> <<>>, log |-> <<>>, exc |-> "none"]

NoBuiltin == Block("probes", "builtins.py", <<>>)

(***************************************************************************)
(* The module behind a scriptlet: whether executing it succeeds, and the   *)
(* functions it defines in the order inspect.getmembers lists them (by     *)
(* name), each with what a call does on the artifacts of the run.          *)
(***************************************************************************)
MemberNames == <<"bundle", "helper", "show_unit", "status">>

Module(loads, members) == [loads |-> loads, members |-> members]

Unloadable == Module(FALSE, <<>>)

\* The module defining, for each name, what `does` says: "absent", "passes"
\* or "raises".
ModuleDoing(does) ==
    Module(TRUE,
           [i \in 1..Len(SelectSeq(MemberNames, LAMBDA n : does[n] # "absent")) |->
               LET name == SelectSeq(MemberNames, LAMBDA n : does[n] # "absent")[i]
               IN  [name |-> name, raises |-> does[name] = "raises"]])

Modules ==
    { ModuleDoing(does) :
        does \in { f \in [Range(MemberNames) -> {"absent", "passes", "raises"}] :
                       f["helper"] # "passes" } }
    \cup { Unloadable }

ModuleA ==
    ModuleDoing([n \in Range(MemberNames) |->
                    CASE n = "status" -> "passes"
                      [] n = "bundle" -> "raises"
                      [] n = "helper" -> "raises"
                      [] OTHER -> "absent"])

ModuleB ==
    ModuleDoing([n \in Range(MemberNames) |->
                    CASE n = "show_unit" -> "passes"
                      [] n = "bundle" -> "passes"
                      [] OTHER -> "absent"])

ModuleOf(path) == IF path = "a.py" THEN fs.a ELSE ModuleB

\* getattr(artifacts, func_name)
ArtifactOf(arts, func_name) ==
    CASE func_name = "status" -> arts.status
      [] func_name = "bundle" -> arts.bundle
      [] OTHER -> arts.show_unit

(***************************************************************************)
(* Probe.get_functions (probes.py:221-243): executes the module, which may *)
(* raise, and keeps the members named in SUPPORTED_PROBE_FUNCTIONS.        *)
(***************************************************************************)
\* A slip of the filter: every function of the module is returned.
get_all_functions(probe) ==
    LET module == ModuleOf(probe.path)
    IN  IF ~module.loads THEN [val |-> <<>>, exc |-> "ImportError"]
        ELSE [val |-> module.members, exc |-> "none"]
get_functions(probe) ==
    LET module == ModuleOf(probe.path)
    IN  IF ~module.loads THEN [val |-> <<>>, exc |-> "ImportError"]
        ELSE [val |-> SelectSeq(module.members,
                        LAMBDA m : m.name \in Range(SUPPORTED_PROBE_FUNCTIONS)),
              exc |-> "none"]

(***************************************************************************)
(* Probe.run (probes.py:245-264): the loop over the functions, on the      *)
(* probe's result list `results` and the log.                              *)
(***************************************************************************)
\* probes.py:252-257: log.warning(...) and `continue`.
NoArtifactWarning(func_name, path) ==
    [level |-> "warning", what |-> "no artifact", arg |-> << func_name, path >>]

\* A slip of the warning: logged twice.
warn_twice(log, func_name, path) ==
    Append(Append(log, NoArtifactWarning(func_name, path)),
           NoArtifactWarning(func_name, path))
warn_no_artifact(log, func_name, path) ==
    Append(log, NoArtifactWarning(func_name, path))

\* A slip of the `continue`: the gap recorded as a failed result.
fail_no_artifact(results, func_name) ==
    Append(results, AssertionResult(func_name, FALSE, [kind |-> "no artifact"]))
skip_no_artifact(results, func_name) == results

RECURSIVE run_loop(_, _, _, _, _)
run_loop(probe, functions, arts, results, log) ==
    IF functions = <<>> THEN [results |-> results, log |-> log, exc |-> "none"]
    ELSE LET func == Head(functions)
         IN  IF ArtifactOf(arts, func.name) = <<>>
             THEN run_loop(probe, Tail(functions), arts,
                           skip_no_artifact(results, func.name),
                           warn_no_artifact(log, func.name, probe.path))
             ELSE run_loop(probe, Tail(functions), arts,
                           Append(results,
                                  IF func.raises
                                  THEN AssertionResult(func.name, FALSE,
                                            [kind |-> "raised", by |-> func.name])
                                  ELSE AssertionResult(func.name, TRUE, NoException)),
                           log)

\* A slip of the single pass: the functions are taken a second time.
run_again(probe, arts, results, log) ==
    LET functions == get_functions(probe)
    IN  IF functions.exc # "none"
        THEN [results |-> results, log |-> log, exc |-> functions.exc]
        ELSE run_loop(probe, functions.val \o functions.val, arts, results, log)
run(probe, arts, results, log) ==
    LET functions == get_functions(probe)
    IN  IF functions.exc # "none"
        THEN [results |-> results, log |-> log, exc |-> functions.exc]
        ELSE run_loop(probe, functions.val, arts, results, log)

(***************************************************************************)
(* check() (main.py:74-170).                                               *)
(***************************************************************************)
\* The URLs a --probe argument may name.
RootUrls == {"r.yaml", "a.py", "d"}

\* The artifacts of a run: one status and one bundle document, or a bundle
\* and a show-unit document.
StatusDoc == [applications |-> << App("am", 1) >>, offers |-> <<>>]
BundleDoc == [relations |-> << << Ep("a", "x"), Ep("b", "x") >> >>]
ShowUnitDoc == [units |-> <<>>]

MainArtifacts ==
    { Artifacts(<<StatusDoc>>, <<BundleDoc>>, <<>>),
      Artifacts(<<>>, <<BundleDoc>>, <<ShowUnitDoc>>) }

NoArtifacts == Artifacts(<<>>, <<>>, <<>>)

\* input[f] = ModelArtifact.from_files(...) for every file (main.py:113-119).
Artifacts_of_files(p) ==
    [status |-> p.status, bundle |-> p.bundle, show_unit |-> p.show_unit]

\* ctx.params of a run on the files behind the artifacts `arts`, and of a
\* run on the live models `models`.
Params(models, arts) ==
    [models |-> models, status |-> arts.status, bundle |-> arts.bundle,
     show_unit |-> arts.show_unit]

\* ModelArtifact.from_live_model(model) for every model: a live model gives
\* a snapshot of each kind.
from_live_models(models) == Artifacts(<<StatusDoc>>, <<BundleDoc>>, <<ShowUnitDoc>>)

\* main.py:75-80: the three usage errors, typer.BadParameter (exit code 2).
\* Without the first test: live models beside static files are let through.
usage_error_unmixed(p, urls) ==
    LET files == p.status # <<>> \/ p.bundle # <<>> \/ p.show_unit # <<>>
    IN  CASE p.models = <<>> /\ ~files -> "no artifacts"
          [] urls = <<>> -> "no probes"
          [] OTHER -> "none"
usage_error(p, urls) ==
    LET files == p.status # <<>> \/ p.bundle # <<>> \/ p.show_unit # <<>>
    IN  CASE p.models # <<>> /\ files -> "mutually exclusive"
          [] p.models = <<>> /\ ~files -> "no artifacts"
          [] urls = <<>> -> "no probes"
          [] OTHER -> "none"

\* main.py:105-119: the artifacts of the live models, or of the files.
gather(p) ==
    IF p.models # <<>> THEN from_live_models(p.models)
    ELSE Artifacts_of_files(p)

\* What the ruleset documents carry under a built-in key: content[builtin.name].
BlockOf(owner, name) ==
    CASE name = "applications" -> << AppAssertion("am", <<2>>, <<>>) >>
      [] name = "relations" -> << Declared(<< Ep("b", "x"), Ep("a", "x") >>, "builtins.py") >>
      [] name = "offers" -> << OfferAssertion("lo", "logging", None) >>
      [] OTHER -> FileContent(owner).probes

\* The stack the library calls need: reading and parsing a file, logging a
\* record, and (copy, node) copying a URL's files and adding a tree node.
Envs == { [copy |-> e.lib, read |-> e.read, log |-> e.log, node |-> e.lib] :
            e \in [read : 1..MaxCallee, log : 1..MaxCallee, lib : 1..MaxCallee] }

\* The result list behind a list id, and the heap after list `id` became v.
ListOf(heap, id) == IF id \in DOMAIN heap THEN heap[id] ELSE <<>>

Store(heap, id, v) ==
    [i \in DOMAIN heap \cup {id} |-> IF i = id THEN v ELSE heap[i]]

\* main.py:92-97, one --probe argument: added to the set, or a warning.
\* A slip of the else branch: the duplicate dropped without a warning.
add_silently(acc, probe_url) ==
    IF probe_url \notin acc.urls THEN [acc EXCEPT !.urls = @ \cup {probe_url}]
    ELSE acc
add_unique(acc, probe_url) ==
    IF probe_url \notin acc.urls THEN [acc EXCEPT !.urls = @ \cup {probe_url}]
    ELSE [acc EXCEPT !.pt = Log(@, "warning", "duplicate", probe_url)]

RECURSIVE dedup(_, _)
dedup(acc, urls) ==
    IF urls = <<>> THEN acc ELSE dedup(add_unique(acc, Head(urls)), Tail(urls))

\* The items of probe_tree.builtins in the order main.py:143-144 visits them:
\* type by type as first inserted, ruleset by ruleset within a type.
RECURSIVE builtin_types(_, _)
builtin_types(table, seen) ==
    IF table = <<>> THEN <<>>
    ELSE IF Head(table).name \in seen THEN builtin_types(Tail(table), seen)
    ELSE <<Head(table).name>> \o builtin_types(Tail(table), seen \cup {Head(table).name})

RECURSIVE builtin_items_of(_, _)
builtin_items_of(table, types) ==
    IF types = <<>> THEN <<>>
    ELSE SelectSeq(table, LAMBDA e : e.name = Head(types))
         \o builtin_items_of(table, Tail(types))

builtin_items(table) == builtin_items_of(table, builtin_types(table, {}))

\* Where check() goes on after the resolution loop and after the probes loop.
AfterProbes(pt) == IF builtin_items(pt.builtins) # <<>> THEN "builtins" ELSE "report"

AfterResolve(pt) == IF pt.probes # <<>> THEN "run" ELSE AfterProbes(pt)

ReadWarnings(log) ==
    Cardinality({i \in 1..Len(log) : log[i].what = "read"})

\* check() up to the resolution (main.py:74-119): the usage errors, the
\* duplicate --probe arguments, the artifacts.
Dedup ==
    /\ pc = "start"
    /\ IF usage_error(params, probe_urls) # "none"
       THEN /\ pc' = "usage"
            /\ probe_tree' = Log(probe_tree, "usage", usage_error(params, probe_urls),
                                 "check")
            /\ UNCHANGED <<unique_probe_urls, artifacts>>
       ELSE /\ LET acc == dedup([urls |-> {}, pt |-> probe_tree], probe_urls)
               IN  /\ unique_probe_urls' = acc.urls
                   /\ probe_tree' = acc.pt
            /\ artifacts' = gather(params)
            /\ pc' = "resolve"
    /\ UNCHANGED <<fs, probe_urls, params, defaults, resolved, lists, next_probe,
                   next_builtin, check_functions, ran, ceiling, totals, builtin,
                   validated>>

\* One pass of `for probe_url in unique_probe_urls` (main.py:125-133); a set
\* is iterated in no particular order.
ResolveRoot ==
    /\ pc = "resolve"
    /\ \E probe_url \in unique_probe_urls, env \in Envs :
          LET r == from_url(probe_url, <<>>, probe_tree, env, 1)
              last == unique_probe_urls = {probe_url}
          IN  /\ unique_probe_urls' = unique_probe_urls \ {probe_url}
              /\ resolved' = Append(resolved, probe_url)
              /\ ceiling' = IF \/ r.exc = "RecursionError"
                               \/ ReadWarnings(r.pt.log) > ReadWarnings(probe_tree.log)
                            THEN ceiling \cup {probe_url} ELSE ceiling
              /\ CASE r.exc = "none" ->
                        /\ probe_tree' = r.pt
                        /\ pc' = IF last THEN AfterResolve(r.pt) ELSE "resolve"
                   [] r.exc = "RecursionError" ->
                        /\ probe_tree' = Log(r.pt, "error", "recursion limit", probe_url)
                        /\ pc' = IF last THEN AfterResolve(r.pt) ELSE "resolve"
                   [] OTHER ->
                        /\ probe_tree' = Log(r.pt, "traceback", r.exc, probe_url)
                        /\ pc' = "aborted"
    /\ UNCHANGED <<fs, probe_urls, params, defaults, artifacts, lists, next_probe, next_builtin,
                   check_functions, ran, totals, builtin, validated>>

\* One pass of `for probe in probe_tree.probes` (main.py:138-140).
RunProbe ==
    /\ pc = "run"
    /\ LET probe == probe_tree.probes[next_probe]
           functions == get_functions(probe)
           r == run(probe, artifacts, ListOf(lists, probe.results), probe_tree.log)
           last == next_probe = Len(probe_tree.probes)
       IN  IF functions.exc # "none" \/ r.exc # "none"
           THEN /\ probe_tree' = Log(probe_tree, "traceback", "ImportError", probe.path)
                /\ pc' = "aborted"
                /\ UNCHANGED <<lists, next_probe, check_functions, ran>>
           ELSE /\ check_functions' = check_functions
                        \cup {functions.val[i].name : i \in 1..Len(functions.val)}
                /\ lists' = Store(lists, probe.results, r.results)
                /\ probe_tree' = [probe_tree EXCEPT !.log = r.log]
                /\ ran' = Append(ran, probe.uuid)
                /\ next_probe' = next_probe + 1
                /\ pc' = IF last THEN AfterProbes(probe_tree) ELSE "run"
    /\ UNCHANGED <<fs, probe_urls, params, defaults, artifacts, unique_probe_urls, resolved,
                   next_builtin, ceiling, totals, builtin, validated>>

\* self.artifact_type as validate() sets it (builtins.py:98, 160, 214).
artifact_type(type) == IF type = "relations" THEN "bundle" ELSE "status"

\* Path(f"builtins:{_type}")
BuiltinPath(type) ==
    CASE type = "applications" -> "builtins:applications"
      [] type = "relations" -> "builtins:relations"
      [] type = "offers" -> "builtins:offers"
      [] OTHER -> "builtins:consumes"

(***************************************************************************)
(* The schemas of builtins.py and Builtin.validate_schema (49-55).         *)
(***************************************************************************)
\* "required" and "properties" of the items of each schema().
Required(type) ==
    CASE type = "applications" -> {"name"}
      [] type = "relations" -> {"provides", "requires"}
      [] type = "offers" -> {"name", "endpoint", "interface"}
      [] OTHER -> {"name", "type", "url"}

Properties(type) ==
    CASE type = "applications" -> {"name", "minimum", "maximum"}
      [] type = "relations" -> {"provides", "requires"}
      [] type = "offers" -> {"name", "endpoint", "interface"}
      [] OTHER -> {"name", "type", "url"}

\* The keys the item of a block holds in the document: a bound left out is
\* <<>>, an offer's field left out is None, and a reference is written here
\* without the name it has.
ItemKeys(type, item) ==
    CASE type = "applications" ->
            {"name"} \cup (IF item.minimum # <<>> THEN {"minimum"} ELSE {})
                     \cup (IF item.maximum # <<>> THEN {"maximum"} ELSE {})
      [] type = "offers" -> {k \in DOMAIN item : item[k] # None}
      [] type = "relations" -> DOMAIN item
      [] OTHER -> DOMAIN item \cup {"name"}

\* jsonschema.validate(self.assertion, self.schema()); the schema of
\* Consumes is {} and admits everything.
schema_ok(type, assertion) ==
    \/ type = "consumes"
    \/ \A i \in 1..Len(assertion) :
          /\ Required(type) \subseteq ItemKeys(type, assertion[i])
          /\ ItemKeys(type, assertion[i]) \subseteq Properties(type)

SchemaError(b) ==
    << [level |-> "error", what |-> "Failed to validate schema", arg |-> b.type] >>

\* A validate_schema that sets valid_schema and logs nothing.
validate_schema_silent(b) ==
    [valid_schema |-> schema_ok(b.type, b.assertion), log |-> <<>>]
validate_schema(b) ==
    IF schema_ok(b.type, b.assertion) THEN [valid_schema |-> TRUE, log |-> <<>>]
    ELSE [valid_schema |-> FALSE, log |-> SchemaError(b)]

\* builtin_obj.schema.validate_assertions(builtin_obj, artifacts) (main.py:147):
\* the schema of the block is validated, and a block that passes is handed
\* to its validate().
validate_assertions(builtin_obj, arts) ==
    LET checked == validate_schema(builtin_obj)
    IN  IF checked.valid_schema THEN Validate(builtin_obj, arts)
        ELSE ValidateReturn(<<>>, checked.log)

\* builtin_obj.artifact_type after validate_assertions: None (builtins.py:46)
\* unless validate() was entered.
artifact_type_of(builtin_obj) ==
    IF schema_ok(builtin_obj.type, builtin_obj.assertion)
    THEN artifact_type(builtin_obj.type)
    ELSE None

\* provided_artifacts (main.py:99-103): the kinds a file was given for.
provided_artifacts(arts) ==
    {kind \in Range(SUPPORTED_PROBE_FUNCTIONS) : ArtifactOf(arts, kind) # <<>>}

\* One pass of the loops over probe_tree.builtins (main.py:143-158).
ValidateBuiltin ==
    /\ pc = "builtins"
    /\ LET items == builtin_items(probe_tree.builtins)
           entry == items[next_builtin]
           builtin_obj == Block(entry.name, "builtins.py", BlockOf(entry.owner, entry.name))
           v == validate_assertions(builtin_obj, artifacts)
           logged == [probe_tree EXCEPT !.log = @ \o v.log]
           uuid == uuid4(probe_tree.uuids)
           probe == [Probe(BuiltinPath(entry.name), entry.chain, uuid)
                        EXCEPT !.results = NewResultList(uuid)]
           last == next_builtin = Len(items)
       IN  IF v.exc # "none"
           THEN /\ probe_tree' = Log(probe_tree, "traceback", v.exc, entry.owner)
                /\ pc' = "aborted"
                /\ UNCHANGED <<lists, next_builtin, check_functions>>
           ELSE /\ IF entry.name = "probes"
                   THEN /\ probe_tree' = logged
                        /\ UNCHANGED <<lists, check_functions>>
                   ELSE /\ probe_tree' =
                              [logged EXCEPT !.uuids = uuid,
                                             !.made = Append(@, probe),
                                             !.probes = Append(@, probe)]
                        /\ lists' = Store(lists, probe.results, v.results)
                        /\ check_functions' =
                              check_functions \cup {artifact_type_of(builtin_obj)}
                /\ next_builtin' = next_builtin + 1
                /\ pc' = IF last THEN "report" ELSE "builtins"
    /\ UNCHANGED <<fs, probe_urls, params, defaults, artifacts, unique_probe_urls, resolved,
                   next_probe, ran, ceiling, totals, builtin, validated>>

\* All the AssertionResults of the probes, in the order of probe_tree.probes.
RECURSIVE AllResults(_, _)
AllResults(probes, heap) ==
    IF probes = <<>> THEN <<>>
    ELSE ListOf(heap, Head(probes).results) \o AllResults(Tail(probes), heap)

(***************************************************************************)
(* ProbeResultAggregator (tree.py:35-113) on the probes of the run, each   *)
(* with its list of AssertionResults, and the tree of the resolution.      *)
(***************************************************************************)
\* A slip of the flag: `failed` follows the last result instead of any.
result_text_of_last(probe, results) ==
    LET failed == results # <<>> /\ ~results[Len(results)].passed
    IN  [symbol |-> IF failed \/ results = <<>> THEN "red" ELSE "green",
         name |-> probe.path]
\* Probe.result_text (probes.py:266-299): the node tag, a symbol and the name;
\* red when a result failed or there is none, green otherwise.
result_text(probe, results) ==
    LET failed == \E k \in 1..Len(results) : ~results[k].passed
    IN  [symbol |-> IF failed \/ results = <<>> THEN "red" ELSE "green",
         name |-> probe.path]

\* assertion_result.get_text(output_fmt) (tree.py:80): the text of the
\* result's probe.
get_text(probe, results) == result_text(probe, results)

\* tree.py:60-64: a list of results is `fail` when any of them failed.
group_status(results) ==
    IF \E k \in 1..Len(results) : status(results[k]) = "fail" THEN "fail" ELSE "pass"

\* _group_results (tree.py:57-65) and the order in which _build_tree visits
\* the groups (tree.py:74-75): the group met first, then the other, each in
\* the order of the probes.
_group_results(probes, heap) ==
    LET first == IF probes = <<>> THEN "pass"
                 ELSE group_status(ListOf(heap, probes[1].results))
    IN  SelectSeq(probes, LAMBDA q : group_status(ListOf(heap, q.results)) = first)
        \o SelectSeq(probes, LAMBDA q : group_status(ListOf(heap, q.results)) # first)

\* A slip of the increment: once per probe, by the status of its group.
tally_probe(results, probe_result) ==
    IF probe_result = <<>> THEN results
    ELSE IF group_status(probe_result) = "pass"
         THEN [results EXCEPT !.passed = @ + 1]
         ELSE [results EXCEPT !.failed = @ + 1]
\* tree.py:79-81: results[assertion_result.status] += 1 for every result.
RECURSIVE tally(_, _)
tally(results, probe_result) ==
    IF probe_result = <<>> THEN results
    ELSE tally(IF status(Head(probe_result)) = "pass"
               THEN [results EXCEPT !.passed = @ + 1]
               ELSE [results EXCEPT !.failed = @ + 1],
               Tail(probe_result))

\* The identifier probe.get_chain() of a result node is written by the last
\* uuid of the chain: the chain of a root probe is its uuid, and longer
\* chains differ from every uuid and from each other as their last uuids do.
ResultNode(probe, info, parent) ==
    [id |-> probe.uuid, tag |-> info.name, parent |-> parent, symbol |-> info.symbol]

\* tree.py:100: the parent of a non-root probe's node, str(probe.root_node_uuid).
result_parent(probe) == root_node_uuid(probe)

\* tree.py:95-112 for a probe with at least one result.
attach(tree, probe, info) ==
    IF ~is_root_node(probe)
    THEN IF InTree(tree, probe.uuid)
         THEN [tree |-> tree, exc |-> "DuplicatedNodeIdError"]
         ELSE IF ~InTree(tree, result_parent(probe))
         THEN [tree |-> tree, exc |-> "NodeIDAbsentError"]
         ELSE [tree |-> [tree EXCEPT !.nodes =
                            Append(@, ResultNode(probe, info, result_parent(probe)))],
               exc |-> "none"]
    ELSE IF InTree(tree, probe.uuid)
         THEN [tree |-> [tree EXCEPT !.nodes =
                            [k \in 1..Len(@) |->
                                IF @[k].id = probe.uuid
                                THEN ResultNode(probe, info, @[k].parent) ELSE @[k]]],
               exc |-> "none"]
         ELSE [tree |-> [tree EXCEPT !.nodes =
                            Append(@, ResultNode(probe, info, ROOT_NODE_ID))],
               exc |-> "none"]

\* _build_tree (tree.py:67-113) from the probe at position i of the groups on.
RECURSIVE _build_tree(_, _, _, _, _)
_build_tree(grouped, i, heap, tree, results) ==
    IF i > Len(grouped) THEN [tree |-> tree, results |-> results, exc |-> "none"]
    ELSE LET probe == grouped[i]
             probe_result == ListOf(heap, probe.results)
             counted == tally(results, probe_result)
             a == attach(tree, probe, get_text(probe, probe_result))
         IN  IF probe_result = <<>>
             THEN _build_tree(grouped, i + 1, heap, tree, counted)
             ELSE IF a.exc # "none"
                  THEN [tree |-> tree, results |-> counted, exc |-> a.exc]
                  ELSE _build_tree(grouped, i + 1, heap, a.tree, counted)

NoTotals == [passed |-> 0, failed |-> 0]

\* main.py:160-170: the warning about artifacts nothing asked for, and the
\* tree and totals ProbeResultAggregator prints when the tree is not empty.
Report ==
    /\ pc = "report"
    /\ LET warned ==
              IF provided_artifacts(params) \subseteq check_functions THEN probe_tree
              ELSE Log(probe_tree, "warning", "useless artifact",
                       provided_artifacts(params) \ check_functions)
           built == _build_tree(_group_results(probe_tree.probes, lists), 1, lists,
                                probe_tree.tree, NoTotals)
       IN  IF ~probe_tree.tree.hasRoot
           THEN /\ probe_tree' = warned
                /\ pc' = "done"
                /\ UNCHANGED totals
           ELSE IF built.exc # "none"
           THEN /\ probe_tree' = Log(warned, "traceback", built.exc, "report")
                /\ pc' = "aborted"
                /\ UNCHANGED totals
           ELSE /\ probe_tree' = [warned EXCEPT !.tree = built.tree]
                /\ totals' = built.results
                /\ pc' = "done"
    /\ UNCHANGED <<fs, probe_urls, params, defaults, artifacts, unique_probe_urls, resolved, lists,
                   next_probe, next_builtin, check_functions, ran, ceiling, builtin,
                   validated>>

\* The runs on static files that pass the usage tests.
FileRuns ==
    /\ fs \in [r : RContents, s : SContents, a : {ModuleA, Unloadable}]
    /\ probe_urls \in SeqsUpTo(RootUrls, MaxUrls) \ {<<>>}
    /\ params \in {Params(<<>>, arts) : arts \in MainArtifacts}

\* The runs with live models, no artifact or no probe, on one file system.
OtherRuns ==
    /\ fs = [r |-> Doc("R", << [type |-> "scriptlet", url |-> "a.py"] >>,
                       {"applications"}),
             s |-> NoContent, a |-> ModuleA]
    /\ probe_urls \in SeqsUpTo(RootUrls, MaxUrls)
    /\ params \in {Params(models, arts) :
                      models \in {<<>>, <<"m">>},
                      arts \in MainArtifacts \cup {NoArtifacts}}
    /\ params.models # <<>> \/ usage_error(params, probe_urls) # "none"

Init ==
    /\ FileRuns \/ OtherRuns
    /\ artifacts = NoArtifacts
    /\ pc = "start"
    /\ unique_probe_urls = {}
    /\ resolved = <<>>
    /\ probe_tree = ProbeTree
    /\ defaults = ProbeTree
    /\ lists = <<>>
    /\ next_probe = 1
    /\ next_builtin = 1
    /\ check_functions = {}
    /\ ran = <<>>
    /\ ceiling = {}
    /\ totals = NoTotals
    /\ builtin = NoBuiltin
    /\ validated = NotValidated

Next == Dedup \/ ResolveRoot \/ RunProbe \/ ValidateBuiltin \/ Report

Spec == Init /\ [][Next]_vars

(***************************************************************************)
(* Properties of the resolution.                                           *)
(***************************************************************************)
Made == probe_tree.made

LogCount(level, what, arg) ==
    Cardinality({i \in 1..Len(probe_tree.log) :
                    /\ probe_tree.log[i].level = level
                    /\ probe_tree.log[i].what = what
                    /\ probe_tree.log[i].arg = arg})

Occurrences(seq, x) == Cardinality({i \in 1..Len(seq) : seq[i] = x})

\* The supported functions of a scriptlet whose artifact kind has a snapshot.
Runnable(path) ==
    {i \in 1..Len(ModuleOf(path).members) :
        /\ ModuleOf(path).members[i].name \in {"status", "bundle", "show_unit"}
        /\ ArtifactOf(artifacts, ModuleOf(path).members[i].name) # <<>>}

\* C1: any two Probes constructed during a run have distinct uuids, distinct
\* call chains and distinct result lists, also when they are Probes of the
\* same file; a scriptlet Probe's list holds the results of its own run only.
C1_DistinctProbes ==
    /\ \A i, j \in 1..Len(Made) :
          i # j => /\ Made[i].uuid # Made[j].uuid
                   /\ get_chain(Made[i]) # get_chain(Made[j])
                   /\ Made[i].results # Made[j].results
    /\ \A i \in 1..Len(Made) :
          Made[i].path \in ScriptletPaths =>
             Len(ListOf(lists, Made[i].results)) =
                IF Made[i].uuid \in Range(ran)
                THEN Cardinality(Runnable(Made[i].path)) ELSE 0

\* Two Probes of a.py, reached along different chains, both run, each with
\* results in its list.
C1_Witness ==
    /\ pc = "done"
    /\ \E i, j \in 1..Len(probe_tree.probes) :
          /\ i # j
          /\ probe_tree.probes[i].path = "a.py"
          /\ probe_tree.probes[j].path = "a.py"
          /\ probe_tree.probes[i].probes_chain # probe_tree.probes[j].probes_chain
          /\ ListOf(lists, probe_tree.probes[i].results) # <<>>
          /\ ListOf(lists, probe_tree.probes[j].results) # <<>>

\* A root ruleset whose first reference is a ruleset reference to itself.
SelfReferential(url) ==
    /\ url = "r.yaml"
    /\ fs.r.probes # <<>>
    /\ fs.r.probes[1] = [type |-> "ruleset", url |-> "r.yaml"]

ResolutionOver == pc \notin {"start", "resolve"}

\* C2: when the resolution loop is over, every self-referential root has a
\* "Recursion limit exceeded" error naming it in the log, and no other root
\* has one.
C2_CeilingReported ==
    ResolutionOver =>
        \A url \in Range(resolved) :
            /\ SelfReferential(url) => LogCount("error", "recursion limit", url) = 1
            /\ LogCount("error", "recursion limit", url) = 1 => url \in ceiling

Probes == probe_tree.probes

IsScriptlet(probe) == probe.path \in ScriptletPaths

\* The supported functions of a scriptlet whose artifact kind has no snapshot.
Gapped(path) ==
    {ModuleOf(path).members[i].name : i \in 1..Len(ModuleOf(path).members)}
        \cap {kind \in {"status", "bundle", "show_unit"} : ArtifactOf(artifacts, kind) = <<>>}

\* The kind a built-in Probe's block needs.
KindOf(path) == IF path = "builtins:relations" THEN "bundle" ELSE "status"

\* The built-in blocks of the run in the order check() takes them, the
\* content of the i-th and whether it fails the schema of its type.
Items == builtin_items(probe_tree.builtins)
ContentOf(i) == BlockOf(Items[i].owner, Items[i].name)
InvalidAt(i) == ~schema_ok(Items[i].name, ContentOf(i))

\* The Probe of a built-in block that passed its schema.
Evaluated(probe) ==
    \E i \in 1..Len(Items) :
        /\ Items[i].name # "probes"
        /\ BuiltinPath(Items[i].name) = probe.path
        /\ Items[i].chain = probe.probes_chain
        /\ ~InvalidAt(i)

BuiltinGapped(probe) ==
    /\ ~IsScriptlet(probe)
    /\ Evaluated(probe)
    /\ ArtifactOf(artifacts, KindOf(probe.path)) = <<>>

\* The results a run counts when the functions and built-ins in `without`
\* (Probes of the list, by position) are left out.
RECURSIVE ResultsWithout(_, _)
ResultsWithout(i, without) ==
    IF i > Len(Probes) THEN <<>>
    ELSE (IF i \in without THEN <<>>
          ELSE SelectSeq(ListOf(lists, Probes[i].results),
                         LAMBDA res : IsScriptlet(Probes[i]) =>
                                         res.func_name \notin Gapped(Probes[i].path)))
         \o ResultsWithout(i + 1, without)

RunEnded ==
    \/ pc = "done"
    \/ /\ pc = "aborted"
       /\ probe_tree.log[Len(probe_tree.log)].what = "ImportError"

\* C7: when the run has ended, every probe of the list whose own module loads
\* has been executed, and every built-in of the resolved rulesets has been
\* validated.
C7_OthersExecuted ==
    RunEnded =>
        /\ \A i \in 1..Len(Probes) :
              (IsScriptlet(Probes[i]) /\ ModuleOf(Probes[i].path).loads)
                 => Probes[i].uuid \in Range(ran)
        /\ next_builtin = Len(builtin_items(probe_tree.builtins)) + 1

(***************************************************************************)
(* Probe.run on its own: the root Probe of a.py, whose module is any of    *)
(* Modules, run up to MaxRuns times on any of RunArtifacts.                *)
(***************************************************************************)
\* How often the same Probe is run.
MaxRuns == 2

RunArtifacts ==
    { Artifacts(st, bu, su) :
        st \in SeqsUpTo({StatusDoc}, MaxSnapshots),
        bu \in SeqsUpTo({BundleDoc}, MaxSnapshots),
        su \in SeqsUpTo({ShowUnitDoc}, MaxSnapshots) }

InitRun ==
    /\ fs \in [r : {NoContent}, s : {NoContent}, a : Modules]
    /\ probe_urls = <<"a.py">>
    /\ artifacts \in RunArtifacts
    /\ params = Params(<<>>, artifacts)
    /\ pc = "probe"
    /\ unique_probe_urls = {}
    /\ resolved = <<"a.py">>
    /\ probe_tree = from_url("a.py", <<>>, ProbeTree,
                             [copy |-> 1, read |-> 1, log |-> 1, node |-> 1], 1).pt
    /\ defaults = ProbeTree
    /\ lists = <<>>
    /\ next_probe = 1
    /\ next_builtin = 1
    /\ check_functions = {}
    /\ ran = <<>>
    /\ ceiling = {}
    /\ totals = NoTotals
    /\ builtin = NoBuiltin
    /\ validated = NotValidated

\* probe.run(artifacts) (probes.py:245-264)
Run ==
    /\ pc = "probe"
    /\ Len(ran) < MaxRuns
    /\ LET probe == probe_tree.probes[1]
           r == run(probe, artifacts, ListOf(lists, probe.results), probe_tree.log)
       IN  IF r.exc # "none"
           THEN /\ probe_tree' = Log(probe_tree, "traceback", r.exc, probe.path)
                /\ pc' = "aborted"
                /\ UNCHANGED <<lists, ran>>
           ELSE /\ lists' = Store(lists, probe.results, r.results)
                /\ probe_tree' = [probe_tree EXCEPT !.log = r.log]
                /\ ran' = Append(ran, probe.uuid)
                /\ pc' = pc
    /\ UNCHANGED <<fs, probe_urls, params, defaults, artifacts, unique_probe_urls, resolved,
                   next_probe, next_builtin, check_functions, totals, ceiling,
                   builtin, validated>>

NextRun == Run

SpecRun == InitRun /\ [][NextRun]_vars

\* The Probe that is run, its list and what its module says of a name.
TheProbe == probe_tree.probes[1]

TheResults == ListOf(lists, TheProbe.results)

Defines(name) == \E i \in 1..Len(fs.a.members) : fs.a.members[i].name = name

Raises(name) ==
    \E i \in 1..Len(fs.a.members) :
        fs.a.members[i].name = name /\ fs.a.members[i].raises

ResultsOf(name) ==
    Cardinality({k \in 1..Len(TheResults) : TheResults[k].func_name = name})

Recognized == {"status", "bundle", "show_unit"}

\* C4: after every run the Probe's list has, per run, exactly one result for
\* each of status, bundle and show_unit that the module defines and whose
\* kind has a snapshot, passed exactly when the function returns normally,
\* and no result under any other name.
C4_OneResultPerFunction ==
    pc = "probe" =>
        /\ \A name \in Recognized :
              ResultsOf(name) =
                 IF Defines(name) /\ ArtifactOf(artifacts, name) # <<>>
                 THEN Len(ran) ELSE 0
        /\ \A k \in 1..Len(TheResults) :
              /\ TheResults[k].func_name \in Recognized
              /\ TheResults[k].passed <=> ~Raises(TheResults[k].func_name)

\* One run of a module defining a raising status, a passing bundle and a
\* helper, with snapshots of both kinds: one failed and one passed result.
C4_Witness ==
    /\ Len(ran) = 1
    /\ Defines("status") /\ Raises("status")
    /\ Defines("bundle") /\ ~Raises("bundle")
    /\ Defines("helper")
    /\ artifacts.status # <<>> /\ artifacts.bundle # <<>>
    /\ CountStatus(TheResults, "pass") = 1
    /\ CountStatus(TheResults, "fail") = 1

InitBuiltin ==
    /\ \/ ApplicationsCase(builtin, artifacts)
       \/ RelationsCase(builtin, artifacts)
       \/ OffersCase(builtin, artifacts)
       \/ OtherCase(builtin, artifacts)
    /\ fs = [r |-> NoContent, s |-> NoContent, a |-> ModuleA]
    /\ probe_urls = <<>>
    /\ params = Params(<<>>, artifacts)
    /\ pc = "validate"
    /\ unique_probe_urls = {}
    /\ resolved = <<>>
    /\ probe_tree = ProbeTree
    /\ defaults = ProbeTree
    /\ lists = <<>>
    /\ next_probe = 1
    /\ next_builtin = 1
    /\ check_functions = {}
    /\ ran = <<>>
    /\ ceiling = {}
    /\ totals = NoTotals
    /\ validated = NotValidated

\* builtin.validate(artifacts)
ValidateBlock ==
    /\ pc = "validate"
    /\ LET v == Validate(builtin, artifacts)
       IN  validated' = [done |-> TRUE, results |-> v.results, log |-> v.log,
                         exc |-> v.exc]
    /\ pc' = "validated"
    /\ UNCHANGED <<fs, probe_urls, params, defaults, artifacts, unique_probe_urls, resolved,
                   probe_tree, lists, next_probe, next_builtin, check_functions,
                   ran, ceiling, totals, builtin>>

NextBuiltin == ValidateBlock

SpecBuiltin == InitBuiltin /\ [][NextBuiltin]_vars

\* N expectations, the M snapshots of the kind the block needs, and what
\* validate() returned.
Expectations == builtin.assertion

Needed == ArtifactOf(artifacts, artifact_type(builtin.type))

Passes == CountStatus(validated.results, "pass")

Fails == CountStatus(validated.results, "fail")

OnePassOrFails ==
    /\ validated.exc = "none"
    /\ \/ Passes = 1 /\ Fails = 0
       \/ Passes = 0 /\ Fails >= 1

AppsOf(s) == Needed[s].doc.applications

MissingSnapshots ==
    {sn \in 1..Len(Needed) :
        \E i \in 1..Len(Expectations) : Expectations[i].name \notin AppNamesIn(AppsOf(sn))}

MissingNames ==
    {pr \in (1..Len(Needed)) \X Range(Names(Expectations)) :
        pr[2] \notin AppNamesIn(AppsOf(pr[1]))}

ViolatedBounds ==
    {t \in (1..Len(Needed)) \X (1..Len(Expectations)) \X {"minimum", "maximum"} :
        \E k \in 1..Len(AppsOf(t[1])) :
            /\ AppsOf(t[1])[k].name = Expectations[t[2]].name
            /\ \/ /\ t[3] = "minimum"
                  /\ Expectations[t[2]].minimum # <<>>
                  /\ AppsOf(t[1])[k].scale < Expectations[t[2]].minimum[1]
               \/ /\ t[3] = "maximum"
                  /\ Expectations[t[2]].maximum # <<>>
                  /\ AppsOf(t[1])[k].scale > Expectations[t[2]].maximum[1]}

ApplicationsChecked ==
    /\ validated.done
    /\ builtin.type = "applications"
    /\ Len(Expectations) >= 1
    /\ Len(Needed) >= 1

\* C9 as stated: the failing results are one per (snapshot, missing name)
\* and one per (snapshot, violated bound).
C9_PerMissingName ==
    ApplicationsChecked =>
        Fails = Cardinality(MissingNames) + Cardinality(ViolatedBounds)

\* C9: Applications.validate returns one failing result per snapshot that
\* lacks any declared name, and one per (snapshot, expectation, bound) whose
\* bound the present application's scale violates; one pass when there is
\* none of either.
C9_PerSnapshot ==
    ApplicationsChecked =>
        /\ Fails = Cardinality(MissingSnapshots) + Cardinality(ViolatedBounds)
        /\ Passes = IF Fails = 0 THEN 1 ELSE 0

\* One snapshot lacking two declared names: one failing result.
C9_Witness ==
    /\ ApplicationsChecked
    /\ Len(Needed) = 1
    /\ Cardinality(MissingNames) = 2
    /\ Fails = 1

\* Two relation pairs are the same unordered pair of "app:endpoint" strings.
SamePair(p, q) == p = q \/ (p[1] = q[2] /\ p[2] = q[1])

\* The pairs the bundle snapshots store, and the declared pair of expectation i.
Stored == UNION {Range(Needed[sn].doc.relations) : sn \in 1..Len(Needed)}

StoredIn(sn) == Range(Needed[sn].doc.relations)

DeclaredAt(i) == DeclaredPair(Expectations[i], builtin.impl)

\* validate() reported the pair as not found.
NotFound(pair) ==
    \E k \in 1..Len(validated.results) :
        /\ ~validated.results[k].passed
        /\ validated.results[k].exception.pair = pair

RelationsChecked ==
    /\ validated.done
    /\ builtin.type = "relations"
    /\ Len(Expectations) >= 1
    /\ Len(Needed) >= 1

\* What validate() says of the declared pairs, from their found/not found.
Outcome(v) == [passes |-> CountStatus(v.results, "pass"),
               fails |-> CountStatus(v.results, "fail")]

Reversed(assertion, impl) ==
    [i \in 1..Len(assertion) |->
        Declared(Reverse(DeclaredPair(assertion[i], impl)), impl)]

\* C10: a declared relation pair is found exactly when a snapshot stores it
\* or its reverse, and not found when every stored pair differs from it as an
\* unordered pair; validate() gives the same outcome for the declared pairs
\* written in reverse; Relation.equals agrees on every declared and stored
\* pair, in both directions.
C10_Unordered ==
    RelationsChecked =>
        /\ \A i \in 1..Len(Expectations) :
              NotFound(DeclaredAt(i))
                 <=> \A q \in Stored : ~SamePair(DeclaredAt(i), q)
        /\ Outcome(Validate([builtin EXCEPT
                               !.assertion = Reversed(Expectations, builtin.impl)],
                            artifacts))
              = Outcome(validated)
        /\ \A i \in 1..Len(Expectations) : \A q \in Stored :
              /\ equals(from_rel_pair(q), from_rel_pair(DeclaredAt(i)))
                    <=> SamePair(DeclaredAt(i), q)
              /\ equals(from_rel_pair(DeclaredAt(i)), from_rel_pair(q))
                    <=> SamePair(DeclaredAt(i), q)

\* A declared pair that the only snapshot stores in reverse, found.
C10_Witness ==
    /\ RelationsChecked
    /\ Len(Expectations) = 1
    /\ Len(Needed) = 1
    /\ DeclaredAt(1) # Reverse(DeclaredAt(1))
    /\ Reverse(DeclaredAt(1)) \in StoredIn(1)
    /\ DeclaredAt(1) \notin StoredIn(1)
    /\ Passes = 1

\* Snapshot sn stores neither the declared pair of expectation i nor its reverse.
LacksPair(sn, i) == \A q \in StoredIn(sn) : ~SamePair(DeclaredAt(i), q)

LackingPairs ==
    {pr \in (1..Len(Needed)) \X (1..Len(Expectations)) : LacksPair(pr[1], pr[2])}

\* C11: Relations is evaluated per snapshot: validate() returns one failing
\* result for every (bundle snapshot, declared pair) whose snapshot stores
\* neither the pair nor its reverse, whatever the other snapshots store.
C11_PerSnapshot ==
    RelationsChecked => Fails = Cardinality(LackingPairs)

\* The offers of snapshot sn, and the offer expectation i names in it.
OffersOf(sn) == Needed[sn].doc.offers

OfferAt(sn, i) ==
    OffersOf(sn)[CHOOSE k \in 1..Len(OffersOf(sn)) :
                    OffersOf(sn)[k].name = Expectations[i].name]

EndpointNames(offer) == {offer.endpoints[k].name : k \in 1..Len(offer.endpoints)}

InterfaceAt(offer, endpoint) ==
    offer.endpoints[CHOOSE k \in 1..Len(offer.endpoints) :
                        offer.endpoints[k].name = endpoint].interface

\* The (snapshot, expectation) pairs with the offer absent, with the offer
\* present and the declared endpoint not among its endpoints, and with the
\* declared endpoint present and the declared interface not the one bound to it.
AbsentOffers ==
    {pr \in (1..Len(Needed)) \X (1..Len(Expectations)) :
        Expectations[pr[2]].name \notin AppNamesIn(OffersOf(pr[1]))}

PresentOffers == ((1..Len(Needed)) \X (1..Len(Expectations))) \ AbsentOffers

WrongEndpoints ==
    {pr \in PresentOffers :
        /\ Expectations[pr[2]].endpoint # None
        /\ Expectations[pr[2]].endpoint \notin EndpointNames(OfferAt(pr[1], pr[2]))}

WrongInterfaces ==
    {pr \in PresentOffers :
        /\ Expectations[pr[2]].endpoint \in EndpointNames(OfferAt(pr[1], pr[2]))
        /\ Expectations[pr[2]].interface # None
        /\ Expectations[pr[2]].interface
              # InterfaceAt(OfferAt(pr[1], pr[2]), Expectations[pr[2]].endpoint)}

OffersChecked ==
    /\ validated.done
    /\ builtin.type = "offers"
    /\ Len(Expectations) >= 1
    /\ Len(Needed) >= 1

\* The failing results of a kind that validate() returned.
FailsOfKind(kind) ==
    Cardinality({k \in 1..Len(validated.results) :
                    /\ ~validated.results[k].passed
                    /\ validated.results[k].exception.kind = kind})

AbsenceReported(sn) ==
    \E k \in 1..Len(validated.results) :
        /\ ~validated.results[k].passed
        /\ validated.results[k].exception.kind = "not all offers"
        /\ validated.results[k].exception.snapshot = Needed[sn].name

\* C12: the Offers built-in returns a failing result for every (snapshot,
\* expectation) whose offer is absent, one per declared endpoint that is not
\* among the present offer's endpoints and one per declared interface that
\* differs from the one bound to the endpoint; an undeclared endpoint or
\* interface is not checked, so that a name-only expectation of a present
\* offer fails nothing.
C12_OptionalChecks ==
    OffersChecked =>
        /\ \A pr \in AbsentOffers : AbsenceReported(pr[1])
        /\ FailsOfKind("endpoint") = Cardinality(WrongEndpoints)
        /\ FailsOfKind("interface") = Cardinality(WrongInterfaces)
        /\ (AbsentOffers = {} /\ WrongEndpoints = {} /\ WrongInterfaces = {})
              => Fails = 0

(***************************************************************************)
(* Properties of the result tree and the totals.                           *)
(***************************************************************************)
Reported == pc = "done" /\ probe_tree.tree.hasRoot

Nodes == probe_tree.tree.nodes

\* The runnable functions of a scriptlet that return, and those that raise.
PassingFunctions(path) == {i \in Runnable(path) : ~ModuleOf(path).members[i].raises}

RaisingFunctions(path) == {i \in Runnable(path) : ModuleOf(path).members[i].raises}

\* What probe i contributes: a scriptlet one per executed function, a
\* built-in one per result its validate() returned.
OwnTotals(i) ==
    IF IsScriptlet(Probes[i])
    THEN [passed |-> Cardinality(PassingFunctions(Probes[i].path)),
          failed |-> Cardinality(RaisingFunctions(Probes[i].path))]
    ELSE LET rs == ListOf(lists, Probes[i].results)
         IN  [passed |-> Cardinality({k \in 1..Len(rs) : rs[k].passed}),
              failed |-> Cardinality({k \in 1..Len(rs) : ~rs[k].passed})]

RECURSIVE ExpectedTotals(_)
ExpectedTotals(i) ==
    IF i > Len(Probes) THEN NoTotals
    ELSE [passed |-> OwnTotals(i).passed + ExpectedTotals(i + 1).passed,
          failed |-> OwnTotals(i).failed + ExpectedTotals(i + 1).failed]

\* C13: the reported totals count AssertionResults: passed and failed are the
\* numbers of passing and failing results summed over the executed probes and
\* built-ins, each result once; ruleset nodes add nothing.
C13_TotalsCountResults ==
    Reported => totals = ExpectedTotals(1)

\* A finished run with a ruleset node and a probe of one passing and one
\* failing function: more results than probes.
C13_Witness ==
    /\ Reported
    /\ \E k \in 1..Len(Nodes) : Nodes[k].tag = "R"
    /\ \E i \in 1..Len(Probes) : OwnTotals(i) = [passed |-> 1, failed |-> 1]
    /\ totals.passed >= 2
    /\ totals.failed >= 2
    /\ totals.passed + totals.failed > Len(Probes)

\* The result node of a probe carries the symbol.
HasSymbol(probe, symbol) ==
    \E k \in 1..Len(Nodes) :
        /\ Nodes[k].id = probe.uuid
        /\ "symbol" \in DOMAIN Nodes[k]
        /\ Nodes[k].symbol = symbol

ChildOf(probe, parent) ==
    \E k \in 1..Len(Nodes) :
        /\ Nodes[k].id = probe.uuid
        /\ "symbol" \in DOMAIN Nodes[k]
        /\ Nodes[k].parent = parent

\* C15: the result node of a root probe is a child of the synthetic root, and
\* the result node of a non-root probe a child of its direct parent, the
\* ruleset second to last in its call chain, at every depth.
C15_UnderDirectParent ==
    Reported =>
        \A i \in 1..Len(Probes) :
            (IsScriptlet(Probes[i]) /\ ListOf(lists, Probes[i].results) # <<>>) =>
                ChildOf(Probes[i], get_parent(Probes[i]))

ResultNodes(probe) ==
    {k \in 1..Len(Nodes) : Nodes[k].id = probe.uuid /\ "symbol" \in DOMAIN Nodes[k]}

\* C16: every built-in that produced results has exactly one node in the
\* result tree, a child of the node of the ruleset that declares it.
C16_UnderOwningRuleset ==
    Reported =>
        \A i \in 1..Len(Probes) :
            (~IsScriptlet(Probes[i]) /\ ListOf(lists, Probes[i].results) # <<>>) =>
                /\ Cardinality(ResultNodes(Probes[i])) = 1
                /\ ChildOf(Probes[i], get_parent(Probes[i]))

(***************************************************************************)
(* Properties of the whole run: usage, completion, schemas.                *)
(***************************************************************************)
\* The exit code of the process: 0 when check() returns, 2 for a
\* typer.BadParameter, 1 for an exception that leaves check(); -1 while it runs.
exit_code ==
    CASE pc = "done" -> 0
      [] pc = "usage" -> 2
      [] pc = "aborted" -> 1
      [] OTHER -> -1

FilesGiven == params.status # <<>> \/ params.bundle # <<>> \/ params.show_unit # <<>>
MixedSources == params.models # <<>> /\ FilesGiven
NoArtifactSource == params.models = <<>> /\ ~FilesGiven
NoProbeSource == probe_urls = <<>>

NothingAttempted ==
    /\ unique_probe_urls = {}
    /\ resolved = <<>>
    /\ probe_tree.probes = <<>>
    /\ probe_tree.builtins = <<>>
    /\ Made = <<>>
    /\ ~probe_tree.tree.hasRoot
    /\ ran = <<>>
    /\ lists = <<>>
    /\ check_functions = {}

\* C17: a run that combines live models with static files, or names no
\* artifact source, or names no probe, ends with exit code 2 and fetches,
\* resolves and runs no probe.
C17_BadUsageRejected ==
    (MixedSources \/ NoArtifactSource \/ NoProbeSource) =>
        /\ pc \in {"start", "usage"}
        /\ pc # "start" => exit_code = 2
        /\ NothingAttempted

C17_Witness ==
    /\ pc = "usage"
    /\ MixedSources
    /\ probe_urls # <<>>

\* C18: a run that passed the usage tests never ends by an exception: once
\* past them it is still running or has returned with exit code 0 and its
\* result document, whatever the probes, rulesets and built-in blocks hold.
C18_AlwaysCompletes ==
    pc \notin {"start", "usage"} => exit_code \in {-1, 0}

SchemaErrors ==
    Cardinality({k \in 1..Len(probe_tree.log) :
                    /\ probe_tree.log[k].level = "error"
                    /\ probe_tree.log[k].what = "Failed to validate schema"})
LastProbe(pt) == pt.probes[Len(pt.probes)]

UnknownKeys(content) ==
    ContentKeys(content) \ ({"name", "probes"} \cup Range(SupportedBuiltins))

\* The rulesets the resolution went through: the Probes constructed for a
\* ruleset file that holds a document.
LoadedRulesets ==
    {i \in 1..Len(Made) :
        /\ Made[i].path \in RulesetPaths
        /\ ~FileContent(Made[i].path).empty}

\* Probes and built-in blocks resolved from the ruleset Made[i].
ResolvedFrom(i) ==
    \/ \E k \in 1..Len(probe_tree.probes) :
          Made[i].uuid \in Range(probe_tree.probes[k].probes_chain)
    \/ \E k \in 1..Len(probe_tree.builtins) :
          probe_tree.builtins[k].owner = Made[i].path

\* C20: when the resolution is over, a ruleset document with an unknown
\* top-level key has an error naming the key in the log, and no probe and
\* no built-in block was resolved from it.
C20_ClosedSchema ==
    ResolutionOver =>
        \A i \in LoadedRulesets :
            \A key \in UnknownKeys(FileContent(Made[i].path)) :
                /\ \E k \in 1..Len(probe_tree.log) :
                      /\ probe_tree.log[k].level = "error"
                      /\ probe_tree.log[k].arg = key
                /\ ~ResolvedFrom(i)

\* A ruleset document without probe reference and without built-in block.
NoAssertion(content) ==
    /\ content.probes = <<>>
    /\ content.builtins \cap Range(SupportedBuiltins) = {}

\* C21: when the resolution is over, a ruleset document with neither a probe
\* reference nor a built-in block has an error naming the ruleset in the log
\* and no node in the tree.
C21_EmptyRulesetRejected ==
    ResolutionOver =>
        \A i \in LoadedRulesets :
            NoAssertion(FileContent(Made[i].path)) =>
                /\ \E k \in 1..Len(probe_tree.log) :
                      /\ probe_tree.log[k].level = "error"
                      /\ probe_tree.log[k].arg = Made[i].path
                /\ ~InTree(probe_tree.tree, Made[i].uuid)

(***************************************************************************)
(* Resolutions in one process, outside check(): Probe.from_url called      *)
(* without a tree (its probe_tree parameter takes the default value, one   *)
(* object made when the function was defined) or with a ProbeTree() of the *)
(* caller.  probe_tree is what the last call returned.                     *)
(***************************************************************************)
\* Most calls in one process.
MaxCalls == 2

InitCalls ==
    /\ fs \in [r : {Doc("R", refs, {"applications"}) : refs \in SeqsUpTo(RefSet, 1)},
                s : SContents, a : {ModuleA}]
    /\ probe_urls = <<>>
    /\ params = Params(<<>>, NoArtifacts)
    /\ artifacts = NoArtifacts
    /\ pc = "calls"
    /\ unique_probe_urls = {}
    /\ resolved = <<>>
    /\ probe_tree = ProbeTree
    /\ defaults = ProbeTree
    /\ lists = <<>>
    /\ next_probe = 1
    /\ next_builtin = 1
    /\ check_functions = {}
    /\ ran = <<>>
    /\ ceiling = {}
    /\ totals = NoTotals
    /\ builtin = NoBuiltin
    /\ validated = NotValidated

\* uuid4() never repeats: a new ProbeTree goes on after the uuids handed out.
NewProbeTree == [ProbeTree EXCEPT !.uuids = IF defaults.uuids > probe_tree.uuids
                                             THEN defaults.uuids ELSE probe_tree.uuids]

\* Probe.from_url(url, probes_root): the tree is the default value.
FromUrl ==
    /\ pc = "calls"
    /\ Len(resolved) < MaxCalls
    /\ \E url \in RootUrls, env \in Envs :
          LET r == from_url(url, <<>>, defaults, env, 1)
          IN  /\ defaults' = r.pt
              /\ probe_tree' = r.pt
              /\ resolved' = Append(resolved, url)
              /\ pc' = IF r.exc = "none" THEN "calls" ELSE "raised"
    /\ UNCHANGED <<fs, probe_urls, params, artifacts, unique_probe_urls, lists,
                   next_probe, next_builtin, check_functions, ran, ceiling, totals,
                   builtin, validated>>

\* Probe.from_url(url, probes_root, probe_tree=ProbeTree()), as check() calls it.
FromUrlWithTree ==
    /\ pc = "calls"
    /\ Len(resolved) < MaxCalls
    /\ \E url \in RootUrls, env \in Envs :
          LET r == from_url(url, <<>>, NewProbeTree, env, 1)
          IN  /\ probe_tree' = r.pt
              /\ resolved' = Append(resolved, url)
              /\ pc' = IF r.exc = "none" THEN "calls" ELSE "raised"
    /\ UNCHANGED <<fs, probe_urls, params, defaults, artifacts, unique_probe_urls,
                   lists, next_probe, next_builtin, check_functions, ran, ceiling,
                   totals, builtin, validated>>

NextCalls == FromUrl \/ FromUrlWithTree

SpecCalls == InitCalls /\ [][NextCalls]_vars

\* The nodes right under the root of the tree the last call returned.
RootChildren ==
    {k \in 1..Len(probe_tree.tree.nodes) :
        probe_tree.tree.nodes[k].parent = ROOT_NODE_ID}
FilesOfLast == copy_probes(resolved[Len(resolved)])

\* C22: the tree a resolution returns holds the nodes and probes of its own
\* URL only, whatever was resolved before it in the process: no more nodes
\* under the root than the URL has files, and for the URL of one scriptlet
\* one node under the root and one probe.
C22_RunsIsolated ==
    (pc = "calls" /\ resolved # <<>>) =>
        /\ Cardinality(RootChildren) <= Len(FilesOfLast)
        /\ (Len(FilesOfLast) = 1 /\ FilesOfLast[1] \in ScriptletPaths) =>
              /\ Cardinality(RootChildren) = 1
              /\ Len(probe_tree.probes) = 1

\* The references of the ruleset Made[i], and those whose declared type
\* does not match the suffix of their URL.
RefsOf(i) == FileContent(Made[i].path).probes
Mismatched(ref) ==
    \/ ref.type = "scriptlet" /\ Mismatch(ref, PYTHON)
    \/ ref.type = "ruleset" /\ Mismatch(ref, RULESET)
ResolvedUnder(i, url) ==
    \E k \in 1..Len(probe_tree.probes) :
        /\ probe_tree.probes[k].path = url
        /\ probe_tree.probes[k].probes_chain = get_chain(Made[i])

\* C23: when the resolution ended without an exception, a ruleset in the
\* tree with a mismatched reference has one warning for it, and every
\* scriptlet reference to a scriptlet file listed before or after the
\* mismatched one has its probe in the list, under the chain of the ruleset.
C23_MismatchSkipsItself ==
    (pc \in {"run", "builtins", "report", "done"} /\ ceiling = {}) =>
        \A i \in LoadedRulesets :
            (/\ InTree(probe_tree.tree, Made[i].uuid)
             /\ \E m \in 1..Len(RefsOf(i)) : Mismatched(RefsOf(i)[m])) =>
                \A j \in 1..Len(RefsOf(i)) :
                    (/\ RefsOf(i)[j].type = "scriptlet"
                     /\ RefsOf(i)[j].url \in ScriptletPaths) =>
                        ResolvedUnder(i, RefsOf(i)[j].url)

\* The Probe a node of the tree was created for.
ProbeOfNode(k) ==
    CHOOSE probe \in Range(Made) : probe.uuid = probe_tree.tree.nodes[k].id

\* The call chain of a Probe: the uuids of its callers, then its own.
ChainOf(probe) == probe.probes_chain \o << probe.uuid >>

WithoutEarlierProbes == [probe_tree EXCEPT !.probes = <<>>]

\* C25: what the resolution of a root does with its ruleset-typed references
\* does not depend on the probes collected from earlier roots: it ends the
\* same way, and adds the same probes, as on an empty list.
C25_ChoiceIsLocal ==
    pc = "resolve" =>
        \A probe_url \in unique_probe_urls, env \in Envs :
            LET here == from_url(probe_url, <<>>, probe_tree, env, 1)
                alone == from_url(probe_url, <<>>, WithoutEarlierProbes, env, 1)
            IN  /\ here.exc = alone.exc
                /\ here.exc = "none" =>
                      here.pt.probes = probe_tree.probes \o alone.pt.probes

\* The built-in types a ruleset document declares.
DeclaredTypes(content) == Range(SupportedBuiltins) \cap ContentKeys(content)
SideTable == probe_tree.builtins

\* C26: the side-table has one entry per (built-in type, call chain); every
\* entry is a type declared by the ruleset of that chain, and every ruleset
\* expanded into the tree has an entry under its own chain for each type it
\* declares, whatever its depth and however often its file was resolved.
C26_SideTable ==
    /\ \A i, j \in 1..Len(SideTable) :
          (SideTable[i].name = SideTable[j].name
              /\ SideTable[i].chain = SideTable[j].chain) => i = j
    /\ \A k \in 1..Len(SideTable) :
          \E i \in LoadedRulesets :
              /\ ChainOf(Made[i]) = SideTable[k].chain
              /\ Made[i].path = SideTable[k].owner
              /\ SideTable[k].name \in DeclaredTypes(FileContent(Made[i].path))
    /\ \A i \in LoadedRulesets :
          InTree(probe_tree.tree, Made[i].uuid) =>
              \A name \in DeclaredTypes(FileContent(Made[i].path)) :
                  \E k \in 1..Len(SideTable) :
                      /\ SideTable[k].name = name
                      /\ SideTable[k].chain = ChainOf(Made[i])

\* A ruleset with a block under a root ruleset with a block, and the file of
\* the nested ruleset resolved a second time: three entries, two of them of
\* the same type and file under different chains.
C26_Witness ==
    \E i, j, k \in 1..Len(SideTable) :
        /\ SideTable[i].name = "applications"
        /\ Len(SideTable[i].chain) = 1
        /\ SideTable[j].name = "relations"
        /\ Len(SideTable[j].chain) = 2
        /\ SideTable[j].chain[1] = SideTable[i].chain[1]
        /\ SideTable[k].name = "relations"
        /\ SideTable[k].owner = SideTable[j].owner
        /\ SideTable[k].chain # SideTable[j].chain

\* The URLs a ruleset document refers to, and the file system without a
\* cycle of references: r.yaml is reached from itself directly, or through
\* s.yaml (which the directory d holds too).
UrlsOf(content) == {content.probes[k].url : k \in 1..Len(content.probes)}
Acyclic ==
    /\ "r.yaml" \notin UrlsOf(fs.r)
    /\ ~(UrlsOf(fs.r) \cap {"s.yaml", "d"} # {} /\ "r.yaml" \in UrlsOf(fs.s))
OnlyProbeReferences ==
    \A k \in 1..Len(fs.r.probes) : fs.r.probes[k].type \in {"scriptlet", "ruleset"}

\* The resolution of a root ended by an exception other than the ceiling.
RaisedInResolution ==
    /\ pc = "aborted"
    /\ next_probe = 1
    /\ ran = <<>>
    /\ probe_tree.log[Len(probe_tree.log)].level = "traceback"
    /\ probe_tree.log[Len(probe_tree.log)].what
          \in {"MemoryError", "DuplicatedNodeIdError", "NodeIDAbsentError"}
    /\ probe_tree.log[Len(probe_tree.log)].arg \in Range(resolved)

\* C27: on a file system without a cycle of references, whose references
\* are all scriptlet or ruleset references, no resolution ends by an
\* exception unless the depth ceiling was hit, and no Probe is twice in the
\* probe list.
C27_AcyclicResolves ==
    (Acyclic /\ OnlyProbeReferences /\ ceiling = {}) =>
        /\ ~RaisedInResolution
        /\ \A i, j \in 1..Len(probe_tree.probes) :
              probe_tree.probes[i].uuid = probe_tree.probes[j].uuid => i = j

\* The uuids of the root Probes of the files of a root URL, and what
\* originates from the root: the chains that start with one of them.
RootUuids(url) ==
    {Made[i].uuid : i \in {k \in 1..Len(Made) :
                              /\ Made[k].probes_chain = <<>>
                              /\ Made[k].path \in Range(copy_probes(url))}}
FromRoot(chain, url) == chain[1] \in RootUuids(url)
CeilingAborted(url) == LogCount("error", "recursion limit", url) >= 1

\* C28: when the resolution is over, a root whose resolution was ended by
\* the depth ceiling has no probe in the probe list, no entry in the
\* side-table and no node in the tree, and none of its probes is run.
C28_AbortedRootContributesNothing ==
    ResolutionOver =>
        \A url \in Range(resolved) :
            CeilingAborted(url) =>
                /\ \A k \in 1..Len(probe_tree.probes) :
                      ~FromRoot(ChainOf(probe_tree.probes[k]), url)
                /\ \A k \in 1..Len(SideTable) : ~FromRoot(SideTable[k].chain, url)
                /\ \A k \in 1..Len(probe_tree.tree.nodes) :
                      \A i \in 1..Len(Made) :
                          Made[i].uuid = probe_tree.tree.nodes[k].id =>
                              ~FromRoot(ChainOf(Made[i]), url)
                /\ \A i \in 1..Len(Made) :
                      Made[i].uuid \in Range(ran) => ~FromRoot(ChainOf(Made[i]), url)


(***************************************************************************)
(* The execution pass (main.py:135-140) and what follows it.               *)
(***************************************************************************)
\* The states after the execution pass: the built-ins, the report, the end.
AfterExecution == pc \in {"builtins", "report", "done"}

\* The results of a list that carry the function name.
ResultsNamed(results, name) ==
    {i \in 1..Len(results) : results[i].func_name = name}

\* C29: every resolved probe is executed exactly once per run; after the
\* execution pass a scriptlet Probe holds at most one AssertionResult per
\* supported function name, at most three in all, and through the built-ins
\* and the report its list stays what its one execution made it.
C29_ExecutedOnce ==
    /\ \A i \in 1..Len(Probes) : Occurrences(ran, Probes[i].uuid) <= 1
    /\ AfterExecution =>
          \A i \in 1..Len(Probes) :
             IsScriptlet(Probes[i]) =>
                LET results == ListOf(lists, Probes[i].results)
                IN  /\ Occurrences(ran, Probes[i].uuid) = 1
                    /\ Len(results) <= Len(SUPPORTED_PROBE_FUNCTIONS)
                    /\ \A n \in 1..Len(SUPPORTED_PROBE_FUNCTIONS) :
                          Cardinality(ResultsNamed(results,
                                         SUPPORTED_PROBE_FUNCTIONS[n])) <= 1
                    /\ \A k \in 1..Len(results) :
                          results[k].func_name \in Range(SUPPORTED_PROBE_FUNCTIONS)
                    /\ Len(results) = Cardinality(Runnable(Probes[i].path))

\* A reported run of several probes, one of them holding a result of each of
\* two functions.
C29_Witness ==
    /\ pc = "done"
    /\ Len(ran) >= 2
    /\ \E i \in 1..Len(Probes) :
          /\ IsScriptlet(Probes[i])
          /\ Len(ListOf(lists, Probes[i].results)) = 2


(***************************************************************************)
(* The Fetcher-based resolver (fetcher.py).  A URI is modelled by the path *)
(* it names.  The files are three ruleset documents x.yaml, y.yaml and     *)
(* z.yaml (z.yaml may be absent), the scriptlet a.py and the directory d   *)
(* holding a.py and z.yaml.  fs holds the `probes` list of each document;  *)
(* probe_tree.probes is the list fetch_probes returned and pc how it ended.*)
(***************************************************************************)
\* Deepest Python stack of the resolver: frames past it raise RecursionError.
MaxFetchFrames == 12
\* Longest `probes` list of x.yaml, and of y.yaml and z.yaml.
MaxFetchRefs == 2
MaxNestedRefs == 1

RulesetFiles == {"x.yaml", "y.yaml", "z.yaml"}

FetchRef(type, uri) == [type |-> type, uri |-> uri]

\* The entries of a `probes` list: a scriptlet entry to any path, a ruleset
\* entry to a ruleset file, an entry of another type.
FetchRefs ==
    {FetchRef("scriptlet", uri) : uri \in RulesetFiles \cup {"a.py", "d"}}
        \cup {FetchRef("ruleset", uri) : uri \in RulesetFiles}
        \cup {FetchRef("builtin", "a.py")}

FetchFile(refs) == [exists |-> TRUE, probes |-> refs]
NoFetchFile == [exists |-> FALSE, probes |-> <<>>]

FetchContent(path) ==
    CASE path = "x.yaml" -> fs.x
      [] path = "y.yaml" -> fs.y
      [] path = "z.yaml" -> fs.z
      [] OTHER -> NoFetchFile

\* The files of a path: itself when it is a file, the files under it when
\* it is the directory, none when it does not exist.
FilesUnder(path) ==
    CASE path = "d" -> IF fs.z.exists THEN <<"a.py", "z.yaml">> ELSE <<"a.py">>
      [] path = "a.py" -> <<"a.py">>
      [] OTHER -> IF FetchContent(path).exists THEN <<path>> ELSE <<>>

\* ProbeFS(destination, uri): the path of the URI, relative and local.
ProbeFS(uri) ==
    [uri |-> uri, rel_path |-> uri, local_path |-> uri,
     isfile |-> uri # "d" /\ FilesUnder(uri) # <<>>]

FetchResult(probes, log, exc) == [probes |-> probes, log |-> log, exc |-> exc]

\* _read_file (fetcher.py:21-32): the document, or a warning and None.
Fetcher_read_file(filename, log) ==
    IF FetchContent(filename).exists
    THEN [val |-> FetchContent(filename), log |-> log]
    ELSE [val |-> NoFetchFile,
          log |-> Append(log, [level |-> "warning", what |-> "not found",
                               arg |-> filename])]

\* RuleSet._is_circular_ruleset (fetcher.py:88-97).
_is_circular_ruleset(uri, log) ==
    LET content == Fetcher_read_file(ProbeFS(uri).rel_path, log)
    IN  [val |-> content.val.exists
                   /\ \E i \in 1..Len(content.val.probes) :
                         content.val.probes[i].type = "ruleset",
         log |-> content.log]

RECURSIVE fetch_probes(_, _, _)
RECURSIVE _build_probes(_, _, _)
RECURSIVE _build_probes_loop(_, _, _, _, _)
RECURSIVE RuleSet_aggregate_probes(_, _, _)
RECURSIVE RuleSet_aggregate_loop(_, _, _, _)

\* The loop of RuleSet.aggregate_probes (fetcher.py:68-86) over the entries
\* still to take, `probes` being the list collected so far, in a frame at
\* depth d.
RuleSet_aggregate_loop(ruleset_probes, probes, log, d) ==
    IF ruleset_probes = <<>> THEN FetchResult(probes, log, "none")
    ELSE LET probe == Head(ruleset_probes)
         IN  CASE probe.type = "scriptlet" ->
                    LET r == fetch_probes(probe.uri, log, d + 1)
                    IN  IF r.exc # "none" THEN FetchResult(probes, r.log, r.exc)
                        ELSE RuleSet_aggregate_loop(Tail(ruleset_probes),
                                                    probes \o r.probes, r.log, d)
               [] probe.type = "ruleset" ->
                    IF d + 1 > MaxFetchFrames
                    THEN FetchResult(probes, log, "RecursionError")
                    ELSE LET c == _is_circular_ruleset(probe.uri, log)
                         IN  IF c.val
                             THEN FetchResult(probes, c.log, "CircularRulesetError")
                             ELSE LET r == RuleSet_aggregate_probes(
                                               ProbeFS(probe.uri).rel_path,
                                               c.log, d + 1)
                                  IN  IF r.exc # "none"
                                      THEN FetchResult(probes, r.log, r.exc)
                                      ELSE RuleSet_aggregate_loop(
                                               Tail(ruleset_probes),
                                               probes \o r.probes, r.log, d)
               [] OTHER ->
                    RuleSet_aggregate_loop(Tail(ruleset_probes), probes, log, d)

\* RuleSet.aggregate_probes (fetcher.py:56-86) of the ruleset at probe_path.
RuleSet_aggregate_probes(probe_path, log, d) ==
    IF d > MaxFetchFrames THEN FetchResult(<<>>, log, "RecursionError")
    ELSE LET content == Fetcher_read_file(probe_path, log)
         IN  IF ~content.val.exists \/ content.val.probes = <<>>
             THEN FetchResult(<<>>, content.log, "none")
             ELSE RuleSet_aggregate_loop(content.val.probes, <<>>, content.log, d)

\* The loop of Fetcher._build_probes (fetcher.py:127-145).
_build_probes_loop(probe_fs, probe_files, probes, log, d) ==
    IF probe_files = <<>> THEN FetchResult(probes, log, "none")
    ELSE LET probe_path == Head(probe_files)
         IN  IF probe_path \in RulesetFiles
             THEN LET r == RuleSet_aggregate_probes(probe_path, log, d + 1)
                  IN  IF r.exc # "none" THEN FetchResult(probes, r.log, r.exc)
                      ELSE _build_probes_loop(probe_fs, Tail(probe_files),
                                              probes \o r.probes, r.log, d)
             ELSE _build_probes_loop(probe_fs, Tail(probe_files),
                                     Append(probes,
                                            [name |-> probe_path,
                                             uri |-> probe_fs.uri,
                                             original_path |-> probe_fs.rel_path,
                                             path |-> probe_path]),
                                     log, d)

\* Fetcher._build_probes (fetcher.py:119-145).
_build_probes(probe_fs, log, d) ==
    IF d > MaxFetchFrames THEN FetchResult(<<>>, log, "RecursionError")
    ELSE _build_probes_loop(probe_fs,
                            IF probe_fs.isfile THEN << probe_fs.local_path >>
                            ELSE FilesUnder(probe_fs.local_path),
                            <<>>, log, d)

\* Fetcher._copy_remote_to_local (fetcher.py:103-117): a warning when the
\* path is not there; fetch_probes passes over the FileNotFoundError.
_copy_remote_to_local(probe_fs, log) ==
    IF FilesUnder(probe_fs.rel_path) = <<>>
    THEN Append(log, [level |-> "warning", what |-> "copy", arg |-> probe_fs.uri])
    ELSE log

\* Fetcher.fetch_probes (fetcher.py:147-166).
fetch_probes(uri, log, d) ==
    IF d > MaxFetchFrames THEN FetchResult(<<>>, log, "RecursionError")
    ELSE _build_probes(ProbeFS(uri), _copy_remote_to_local(ProbeFS(uri), log), d + 1)

\* The URIs fetch_probes is called with.
FetchUris == {"x.yaml", "y.yaml", "d", "a.py"}

InitFetch ==
    /\ fs \in [x : {FetchFile(refs) : refs \in SeqsUpTo(FetchRefs, MaxFetchRefs)},
                y : {FetchFile(refs) : refs \in SeqsUpTo(FetchRefs, MaxNestedRefs)},
                z : {FetchFile(refs) : refs \in SeqsUpTo(FetchRefs, MaxNestedRefs)}
                       \cup {NoFetchFile}]
    /\ probe_urls \in {<<uri>> : uri \in FetchUris}
    /\ params = Params(<<>>, NoArtifacts)
    /\ artifacts = NoArtifacts
    /\ pc = "fetch"
    /\ unique_probe_urls = {}
    /\ resolved = <<>>
    /\ probe_tree = ProbeTree
    /\ defaults = ProbeTree
    /\ lists = <<>>
    /\ next_probe = 1
    /\ next_builtin = 1
    /\ check_functions = {}
    /\ ran = <<>>
    /\ ceiling = {}
    /\ totals = NoTotals
    /\ builtin = NoBuiltin
    /\ validated = NotValidated

\* Fetcher.fetch_probes(destination, uri) called from a test or a command.
Fetch ==
    /\ pc = "fetch"
    /\ LET r == fetch_probes(probe_urls[1], <<>>, 1)
       IN  /\ probe_tree' = [probe_tree EXCEPT
                               !.probes = IF r.exc = "none" THEN r.probes ELSE <<>>,
                               !.log = r.log]
           /\ pc' = IF r.exc = "none" THEN "fetched" ELSE r.exc
    /\ resolved' = Append(resolved, probe_urls[1])
    /\ UNCHANGED <<fs, probe_urls, params, defaults, artifacts, unique_probe_urls,
                   lists, next_probe, next_builtin, check_functions, ran, ceiling,
                   totals, builtin, validated>>

NextFetch == Fetch

SpecFetch == InitFetch /\ [][NextFetch]_vars

\* The ruleset documents an entry of the document at path leads to, whatever
\* the type the entry declares.
RulesetsOf(path) ==
    UNION { {f \in Range(FilesUnder(FetchContent(path).probes[i].uri)) :
                f \in RulesetFiles}
            : i \in {k \in 1..Len(FetchContent(path).probes) :
                        FetchContent(path).probes[k].type \in {"scriptlet", "ruleset"}} }

\* The ruleset documents the call starts from.
RootRulesets == {f \in Range(FilesUnder(probe_urls[1])) : f \in RulesetFiles}

\* A chain of more than two ruleset documents from the URI of the call; a
\* cycle gives chains of every length.
LongChain ==
    \E f1 \in RootRulesets : \E f2 \in RulesetsOf(f1) : RulesetsOf(f2) # {}

\* x.yaml refers to the one ruleset y.yaml, which lists scriptlets only.
NestedOnce ==
    /\ probe_urls[1] = "x.yaml"
    /\ fs.x.probes = << FetchRef("ruleset", "y.yaml") >>
    /\ fs.y.probes = << FetchRef("scriptlet", "a.py") >>

\* C30: fetch_probes never runs into the recursion ceiling; a call that
\* starts a chain of more than two ruleset documents, a cycle included, ends
\* with CircularRulesetError whatever the type of the entries of the chain;
\* a ruleset referring to one ruleset of scriptlets returns a non-empty list.
C30_FetchTerminates ==
    pc # "fetch" =>
        /\ pc # "RecursionError"
        /\ LongChain => pc = "CircularRulesetError"
        /\ NestedOnce => pc = "fetched" /\ probe_tree.probes # <<>>

====
